---------------------------- MODULE Spec2Model ----------------------------
(***************************************************************************)
(* A model of the layered evaluation engine of mmap_eval:                  *)
(*   core/metric.py     BaseMetric, MetricResult, Severity                 *)
(*   core/registry.py   MetricRegistry                                     *)
(*   core/evaluator.py  AgentEvaluator                                     *)
(*   core/result.py     LayerResult, EvaluationResult                      *)
(*                                                                         *)
(* Scores are Python floats in the code.  Here a score is an exact         *)
(* rational <<n, d>> in lowest terms (d > 0), and sum(...) / len(...) is   *)
(* computed as the code computes it: add the items, then divide by the     *)
(* count.  Rounding of the float arithmetic is not modelled.               *)
(*                                                                         *)
(* An optional argument (Python's None or a value) is a sequence of        *)
(* length 0 or 1.                                                          *)
(***************************************************************************)
EXTENDS Integers, Sequences, FiniteSets, TLC

\* Longest test-case list (loaded dataset or explicit argument) that is tried.
MaxCases == 2

\* The five layers: the keys of MetricRegistry._metrics, range(1, 6) in evaluate().
NumLayers == 5

Layers == 1 .. NumLayers

(***************************************************************************)
(* Rational arithmetic for scores.                                         *)
(***************************************************************************)
RECURSIVE GCD(_, _)
GCD(a, b) ==
    IF b = 0 THEN a ELSE GCD(b, a % b)

Rat(n, d) ==
    LET g == GCD(n, d) IN <<n \div g, d \div g>>

Zero == <<0, 1>>

One == <<1, 1>>

Half == <<1, 2>>

RatAdd(x, y) ==
    Rat(x[1] * y[2] + y[1] * x[2], x[2] * y[2])

RatDivInt(x, k) ==
    Rat(x[1], x[2] * k)

\* x >= y
RatGeq(x, y) ==
    x[1] * y[2] >= y[1] * x[2]

RECURSIVE SumFrom(_, _)
\* Python's sum(): the items of s added left to right, starting from 0.
SumFrom(s, i) ==
    IF i = 0 THEN Zero ELSE RatAdd(SumFrom(s, i - 1), s[i])

Sum(s) ==
    SumFrom(s, Len(s))

\* sum(xs) / len(xs); the callers never pass an empty list.
Mean(s) ==
    RatDivInt(Sum(s), Len(s))

\* F applied to the value of e, which is computed once (a local variable of the code).
Bind(e, F(_)) ==
    CHOOSE y \in {F(x) : x \in {e}} : TRUE

Range(s) ==
    {s[i] : i \in 1 .. Len(s)}

(***************************************************************************)
(* Severity (core/metric.py).                                              *)
(***************************************************************************)
CRITICAL == "critical"

WARNING == "warning"

INFO == "info"

Severity == {CRITICAL, WARNING, INFO}

(***************************************************************************)
(* The metric objects of the scenario.  m1 and m2 are two instances of     *)
(* IntentAccuracy (so they carry the same name), m3 is a DecisionAccuracy. *)
(* name and threshold are fixed at construction; the layer attribute is    *)
(* mutable state (add_metric assigns it) and severity is drawn at          *)
(* construction, so both are variables below.                              *)
(***************************************************************************)
MetricIds == {"m1", "m2", "m3"}

MetricName(m) ==
    IF m = "m3" THEN "Decision Accuracy" ELSE "Intent Accuracy"

Names == {MetricName(m) : m \in MetricIds}

\* The field of the agent output the metric compares with the ground truth.
MetricField(m) ==
    IF m = "m3" THEN "decision" ELSE "intent"

\* IntentAccuracy(threshold=0.5), IntentAccuracy(threshold=1.0),
\* DecisionAccuracy(threshold=1.0).
MetricThreshold(m) ==
    IF m = "m1" THEN Half ELSE One

\* layer=1 in IntentAccuracy.__init__, layer=2 in DecisionAccuracy.__init__.
DefaultLayer(m) ==
    IF m = "m3" THEN 2 ELSE 1

(***************************************************************************)
(* Test cases and agents.  A test case is known by its id; its ground      *)
(* truth is the same two fields for every case.  An agent is a             *)
(* deterministic function of the test-case input: it returns an output     *)
(* mapping or raises.                                                      *)
(***************************************************************************)
TestCaseIds == {"t1", "t2", "t3"}

GroundTruth(tc) ==
    [intent |-> "refund_request", decision |-> "approve"]

\* a0 is the agent the evaluator is constructed with; a1 and a2 are the agents
\* handed to compare().
Agents == {"a0", "a1", "a2"}

\* self.agent(test_case.input): [raised, output].  a0 is right on t1, decides
\* wrongly on t2 and raises on t3; a1 is right on every test case; a2 never
\* finds the intent.
AgentCall(ag, tc) ==
    CASE ag = "a1"   -> [raised |-> FALSE,
                         output |-> [intent |-> "refund_request", decision |-> "approve"]]
      [] ag = "a2"   -> [raised |-> FALSE,
                         output |-> [intent |-> "complaint", decision |-> "approve"]]
      [] tc = "t1"   -> [raised |-> FALSE,
                         output |-> [intent |-> "refund_request", decision |-> "approve"]]
      [] tc = "t2"   -> [raised |-> FALSE,
                         output |-> [intent |-> "refund_request", decision |-> "deny"]]
      [] OTHER       -> [raised |-> TRUE,
                         output |-> [intent |-> "", decision |-> ""]]

RECURSIVE SeqsOver(_, _)
\* The lists of at most n distinct items of S.
SeqsOver(S, n) ==
    IF n = 0 THEN {<<>>}
    ELSE LET shorter == SeqsOver(S, n - 1)
         IN  shorter \cup {Append(s, x) : s \in {t \in shorter : Len(t) = n - 1},
                                           x \in S}

NoRepeat(s) ==
    \A i, j \in 1 .. Len(s) : i # j => s[i] # s[j]

Datasets == {s \in SeqsOver(TestCaseIds, MaxCases) : NoRepeat(s)}

None == <<>>

Some(x) == <<x>>

\* The layer overrides add_metric is called with: none, a valid one, an invalid one.
LayerArgs == {None, Some(2), Some(6)}

VARIABLES
    metric_layer,       \* BaseMetric.layer of each metric object
    metric_severity,    \* BaseMetric.severity of each metric object
    _metrics,           \* MetricRegistry._metrics: layer -> list of metrics
    _metrics_by_name,   \* MetricRegistry._metrics_by_name: name -> metric
    test_cases,         \* AgentEvaluator.test_cases
    agent,              \* AgentEvaluator.agent
    agent_id,           \* AgentEvaluator.agent_id
    pc,                 \* "idle", or "returned" when a call has just ended
    call                \* the call that has just ended: operation, arguments, outcome

vars == <<metric_layer, metric_severity, _metrics, _metrics_by_name,
          test_cases, agent, agent_id, pc, call>>


(***************************************************************************)
(* MetricRegistry (core/registry.py).  Each method is an operator from the *)
(* registry's two fields to the outcome: the error raised ("" when the     *)
(* call returns) and the fields after the call.                            *)
(***************************************************************************)
Registry(reg, byname) ==
    [_metrics |-> reg, _metrics_by_name |-> byname]

\* MetricRegistry.__init__
EmptyRegistry ==
    Registry([l \in Layers |-> <<>>], <<>>)

DuplicateError == "ValueError: metric is already registered"

LayerKeyError == "KeyError: no bucket for metric.layer"

\* Mutant: the metric is put at the front of its bucket.
register_at_front(reg, byname, m, lay) ==
    IF MetricName(m) \in DOMAIN byname
    THEN [err |-> DuplicateError, registry |-> Registry(reg, byname)]
    ELSE IF lay \notin DOMAIN reg
    THEN [err |-> LayerKeyError, registry |-> Registry(reg, byname)]
    ELSE [err |-> "",
          registry |-> Registry([reg EXCEPT ![lay] = <<m>> \o @],
                                byname @@ (MetricName(m) :> m))]

\* register(metric), where lay is metric.layer at the time of the call.
register(reg, byname, m, lay) ==
    IF MetricName(m) \in DOMAIN byname
    THEN [err |-> DuplicateError, registry |-> Registry(reg, byname)]
    ELSE IF lay \notin DOMAIN reg
    THEN [err |-> LayerKeyError, registry |-> Registry(reg, byname)]
    ELSE [err |-> "",
          registry |-> Registry([reg EXCEPT ![lay] = Append(@, m)],
                                byname @@ (MetricName(m) :> m))]

\* list.remove(x): drops the first occurrence of x.
RECURSIVE Remove(_, _)
Remove(s, x) ==
    IF s = <<>> THEN <<>>
    ELSE IF Head(s) = x THEN Tail(s)
    ELSE <<Head(s)>> \o Remove(Tail(s), x)

NotFoundError == "KeyError: metric not found in registry"

NotInListError == "ValueError: list.remove(x): x not in list"

\* unregister(metric_name), where ml gives each metric's layer attribute.
unregister(reg, byname, ml, n) ==
    IF n \notin DOMAIN byname
    THEN [err |-> NotFoundError, registry |-> Registry(reg, byname)]
    ELSE LET metric == byname[n]
         IN  IF ml[metric] \notin DOMAIN reg
             THEN [err |-> LayerKeyError, registry |-> Registry(reg, byname)]
             ELSE IF metric \notin Range(reg[ml[metric]])
             THEN [err |-> NotInListError, registry |-> Registry(reg, byname)]
             ELSE [err |-> "",
                   registry |->
                       Registry([reg EXCEPT ![ml[metric]] = Remove(@, metric)],
                                [k \in DOMAIN byname \ {n} |-> byname[k]])]

\* Mutant: the bucket, last registered metric first.
get_metrics_by_layer_reversed(reg, layer) ==
    [i \in 1 .. Len(reg[layer]) |-> reg[layer][Len(reg[layer]) - i + 1]]

\* get_metrics_by_layer(layer), for a layer of the registry: a copy of the bucket.
get_metrics_by_layer(reg, layer) ==
    reg[layer]

\* get_metric(name): the metric, or None.
get_metric(byname, n) ==
    IF n \in DOMAIN byname THEN Some(byname[n]) ELSE None

\* count()
count(byname) ==
    Cardinality(DOMAIN byname)

\* count_by_layer(layer)
count_by_layer(reg, layer) ==
    IF layer \in DOMAIN reg THEN Len(reg[layer]) ELSE 0

(***************************************************************************)
(* MetricResult (core/metric.py).  layer carries Field(ge=1, le=5):        *)
(* constructing a MetricResult with another layer raises a validation      *)
(* error.  The score and threshold bounds always hold here.                *)
(***************************************************************************)
ValidResultLayer(lay) ==
    lay >= 1 /\ lay <= 5

\* The result of one metric on one agent output: IntentAccuracy.evaluate and
\* DecisionAccuracy.evaluate, which differ in the field they compare.
metric_evaluate(m, sev, output, ground_truth) ==
    LET predicted == output[MetricField(m)]
        expected  == ground_truth[MetricField(m)]
        missing   == predicted = "" \/ expected = ""
        score     == IF ~missing /\ predicted = expected THEN One ELSE Zero
    IN  [score |-> score,
         passed |-> RatGeq(score, MetricThreshold(m)),
         severity |-> sev,
         error |-> missing]

\* The MetricResult the evaluator synthesizes when the agent or the metric raised.
error_result ==
    [score |-> Zero, passed |-> FALSE, severity |-> CRITICAL, error |-> TRUE]

\* The body of the loop over test cases: run the agent, then the metric.
test_result(m, sev, ag, tc) ==
    LET r == AgentCall(ag, tc)
    IN  IF r.raised THEN error_result
        ELSE metric_evaluate(m, sev, r.output, GroundTruth(tc))

\* One invocation of the agent, as it is logged: on behalf of which layer and
\* metric, on which test case, and which agent was bound.
Invocation(layer_num, m, tc, ag) ==
    [layer |-> layer_num, metric |-> m, test_case |-> tc, agent |-> ag]

\* sum(r.score for r in test_results) / len(test_results)
metric_score(test_results) ==
    Mean([i \in 1 .. Len(test_results) |-> test_results[i].score])

\* Mutant: a strict comparison, so that a score equal to the threshold fails.
metric_passed_strict(avg_score, threshold) ==
    ~RatGeq(threshold, avg_score)

\* avg_score >= metric.threshold
metric_passed(avg_score, threshold) ==
    RatGeq(avg_score, threshold)

\* Mutant: the aggregated MetricResult takes the CRITICAL severity of an error
\* result among the test results.
aggregated_result_escalated(m, lay, sev, test_results) ==
    LET avg_score == metric_score(test_results)
        passed    == metric_passed(avg_score, MetricThreshold(m))
    IN  [metric_id |-> m,
         metric_name |-> MetricName(m),
         layer |-> lay,
         score |-> avg_score,
         threshold |-> MetricThreshold(m),
         passed |-> passed,
         severity |-> IF \E i \in 1 .. Len(test_results) : test_results[i].error
                     THEN CRITICAL ELSE sev,
         correct |-> Cardinality({i \in 1 .. Len(test_results) : test_results[i].passed}),
         total |-> Len(test_results),
         individual_scores |-> [i \in 1 .. Len(test_results) |-> test_results[i].score],
         remediation |-> IF passed THEN None
                         ELSE Some("below threshold. Review agent implementation.")]

\* The aggregated MetricResult of one metric over the test results.
aggregated_result(m, lay, sev, test_results) ==
    LET avg_score == metric_score(test_results)
        passed    == metric_passed(avg_score, MetricThreshold(m))
    IN  [metric_id |-> m,
         metric_name |-> MetricName(m),
         layer |-> lay,
         score |-> avg_score,
         threshold |-> MetricThreshold(m),
         passed |-> passed,
         severity |-> sev,
         correct |-> Cardinality({i \in 1 .. Len(test_results) : test_results[i].passed}),
         total |-> Len(test_results),
         individual_scores |-> [i \in 1 .. Len(test_results) |-> test_results[i].score],
         remediation |-> IF passed THEN None
                         ELSE Some("below threshold. Review agent implementation.")]

(***************************************************************************)
(* The iteration of _evaluate_layer for one metric.  With a layer          *)
(* attribute outside 1..5 the first test case already ends the             *)
(* evaluation: the agent is invoked, the built-in metric fails to build    *)
(* its MetricResult, and the MetricResult of the evaluator's except        *)
(* clause fails the same validation, so the error leaves evaluate().       *)
(* Without a test case the loop has no iteration and the mean divides by   *)
(* len(test_results) = 0.                                                  *)
(* The outcome is [raised, err, results (none or one), calls].             *)
(***************************************************************************)
ValidationError == "ValidationError: MetricResult.layer"

ZeroDivisionError == "ZeroDivisionError: division by zero"

\* Mutant: the agent is invoked on the first test case only, and its output is
\* scored for every test case.
evaluate_metric_one_invocation(layer_num, m, lay, sev, ag, cases) ==
    IF cases = <<>>
    THEN [raised |-> TRUE, err |-> ZeroDivisionError, results |-> <<>>, calls |-> <<>>]
    ELSE IF ~ValidResultLayer(lay)
    THEN [raised |-> TRUE, err |-> ValidationError, results |-> <<>>,
          calls |-> <<Invocation(layer_num, m, cases[1], ag)>>]
    ELSE [raised |-> FALSE, err |-> "",
          results |-> <<aggregated_result(m, lay, sev,
                            [i \in 1 .. Len(cases) |-> test_result(m, sev, ag, cases[1])])>>,
          calls |-> <<Invocation(layer_num, m, cases[1], ag)>>]

evaluate_metric(layer_num, m, lay, sev, ag, cases) ==
    IF cases = <<>>
    THEN [raised |-> TRUE, err |-> ZeroDivisionError, results |-> <<>>, calls |-> <<>>]
    ELSE IF ~ValidResultLayer(lay)
    THEN [raised |-> TRUE, err |-> ValidationError, results |-> <<>>,
          calls |-> <<Invocation(layer_num, m, cases[1], ag)>>]
    ELSE [raised |-> FALSE, err |-> "",
          results |-> <<aggregated_result(m, lay, sev,
                            [i \in 1 .. Len(cases) |-> test_result(m, sev, ag, cases[i])])>>,
          calls |-> [i \in 1 .. Len(cases) |-> Invocation(layer_num, m, cases[i], ag)]]

RECURSIVE metric_loop(_, _, _, _, _, _, _)
\* The loop over the layer's metrics, after its first k iterations.
metric_loop(layer_num, mets, k, ml, ms, ag, cases) ==
    IF k = 0 THEN [raised |-> FALSE, err |-> "", results |-> <<>>, calls |-> <<>>]
    ELSE Bind(metric_loop(layer_num, mets, k - 1, ml, ms, ag, cases),
              LAMBDA prev :
                IF prev.raised THEN prev
                ELSE Bind(evaluate_metric(layer_num, mets[k], ml[mets[k]],
                                          ms[mets[k]], ag, cases),
                          LAMBDA cur :
                            [raised |-> cur.raised,
                             err |-> cur.err,
                             results |-> prev.results \o cur.results,
                             calls |-> prev.calls \o cur.calls]))

\* AgentEvaluator.LAYER_NAMES
LAYER_NAMES ==
    <<"Input/Output Validation", "Model Performance", "System Integration",
      "Business Logic", "Fairness & Compliance">>

\* Mutant: a layer without metrics scores 0.0 and fails.
vacuous_layer_fails(layer_num) ==
    [layer_number |-> layer_num, layer_name |-> LAYER_NAMES[layer_num],
     score |-> Zero, status |-> "fail", metrics |-> <<>>]

\* The LayerResult of a layer with no registered metric.
vacuous_layer(layer_num) ==
    [layer_number |-> layer_num, layer_name |-> LAYER_NAMES[layer_num],
     score |-> One, status |-> "pass", metrics |-> <<>>]

\* sum(m.score for m in metric_results) / len(metric_results)
layer_score(metric_results) ==
    Mean([i \in 1 .. Len(metric_results) |-> metric_results[i].score])

\* Mutant: only critical failures fail the layer (the overall rule).
layer_status_critical_only(metric_results) ==
    IF \A i \in 1 .. Len(metric_results) :
           metric_results[i].passed \/ metric_results[i].severity # CRITICAL
    THEN "pass" ELSE "fail"

\* "pass" if all(m.passed for m in metric_results) else "fail"
layer_status(metric_results) ==
    IF \A i \in 1 .. Len(metric_results) : metric_results[i].passed
    THEN "pass" ELSE "fail"

\* _evaluate_layer(layer_num, test_cases): [raised, err, results (none or one), calls].
_evaluate_layer(layer_num, reg, ml, ms, ag, cases) ==
    LET metrics == get_metrics_by_layer(reg, layer_num)
    IN  IF metrics = <<>>
        THEN [raised |-> FALSE, err |-> "", results |-> <<vacuous_layer(layer_num)>>,
              calls |-> <<>>]
        ELSE Bind(metric_loop(layer_num, metrics, Len(metrics), ml, ms, ag, cases),
                  LAMBDA run :
                    IF run.raised
                    THEN [raised |-> TRUE, err |-> run.err, results |-> <<>>,
                          calls |-> run.calls]
                    ELSE [raised |-> FALSE, err |-> "",
                          results |->
                              <<[layer_number |-> layer_num,
                                 layer_name |-> LAYER_NAMES[layer_num],
                                 score |-> layer_score(run.results),
                                 status |-> layer_status(run.results),
                                 metrics |-> run.results]>>,
                          calls |-> run.calls])

(***************************************************************************)
(* LayerResult (core/result.py).                                           *)
(***************************************************************************)
\* LayerResult.passed
layer_passed(layer) ==
    \A i \in 1 .. Len(layer.metrics) : layer.metrics[i].passed

\* Mutant: every failed metric counts, whatever its severity.
get_critical_failures_any_severity(layer) ==
    SelectSeq(layer.metrics, LAMBDA m : ~m.passed)

\* LayerResult.get_critical_failures
get_critical_failures(layer) ==
    SelectSeq(layer.metrics, LAMBDA m : ~m.passed /\ m.severity = CRITICAL)

(***************************************************************************)
(* AgentEvaluator.evaluate (core/evaluator.py).                            *)
(***************************************************************************)
\* test_cases or self.test_cases: None and the empty list are both falsy.
cases_to_evaluate(test_cases_arg, loaded) ==
    IF test_cases_arg # None /\ test_cases_arg[1] # <<>>
    THEN test_cases_arg[1] ELSE loaded

NoTestCasesError == "ValueError: No test cases provided for evaluation"

NoMetricsError == "ValueError: No metrics registered for evaluation"

\* Mutant: the registry is checked before the test cases.
entry_error_metrics_first(cases, byname) ==
    IF count(byname) = 0 THEN NoMetricsError
    ELSE IF cases = <<>> THEN NoTestCasesError
    ELSE ""

\* The two checks at the entry of evaluate(): the error raised, or "".
entry_error(cases, byname) ==
    IF cases = <<>> THEN NoTestCasesError
    ELSE IF count(byname) = 0 THEN NoMetricsError
    ELSE ""

\* The entry of all_critical_issues for one critical failure.  The aggregated
\* MetricResult has no "error" detail, so the text is always the default one.
issue(layer_num, metric_result) ==
    <<layer_num, metric_result.metric_name, "Critical failure">>

\* Mutant: the issues of a layer are collected last metric first.
layer_issues_reversed(layer_result) ==
    LET failures == get_critical_failures(layer_result)
    IN  [i \in 1 .. Len(failures) |->
            issue(layer_result.layer_number, failures[Len(failures) + 1 - i])]

\* The issues one layer adds to all_critical_issues.
layer_issues(layer_result) ==
    LET failures == get_critical_failures(layer_result)
    IN  [i \in 1 .. Len(failures) |-> issue(layer_result.layer_number, failures[i])]

RECURSIVE layer_loop(_, _, _, _, _, _)
\* The loop over range(1, 6), after its first k iterations:
\* [raised, layer_results, all_critical_issues, calls].
layer_loop(k, reg, ml, ms, ag, cases) ==
    IF k = 0
    THEN [raised |-> FALSE, layer_results |-> <<>>,
          all_critical_issues |-> <<>>, calls |-> <<>>]
    ELSE Bind(layer_loop(k - 1, reg, ml, ms, ag, cases),
              LAMBDA prev :
                IF prev.raised THEN prev
                ELSE Bind(_evaluate_layer(k, reg, ml, ms, ag, cases),
                          LAMBDA cur :
                            IF cur.raised
                            THEN [prev EXCEPT !.raised = TRUE,
                                              !.calls = prev.calls \o cur.calls]
                            ELSE [raised |-> FALSE,
                                  layer_results |-> prev.layer_results \o cur.results,
                                  all_critical_issues |->
                                      prev.all_critical_issues
                                          \o layer_issues(cur.results[1]),
                                  calls |-> prev.calls \o cur.calls]))

\* Mutant: the mean over the layers that have metrics only.
overall_score_skip_vacuous(layer_results) ==
    Mean(LET covered == SelectSeq(layer_results, LAMBDA l : l.metrics # <<>>)
         IN  [i \in 1 .. Len(covered) |-> covered[i].score])

\* sum(layer.score for layer in layer_results) / len(layer_results)
overall_score(layer_results) ==
    Mean([i \in 1 .. Len(layer_results) |-> layer_results[i].score])

\* passed = len(all_critical_issues) == 0
overall_passed(all_critical_issues) ==
    Len(all_critical_issues) = 0

\* evaluate(test_cases): [err, result (none or one EvaluationResult), calls].
\* evaluation_id, timestamp and duration_seconds are left out of the result.
evaluate(test_cases_arg, loaded, reg, byname, ml, ms, ag, aid) ==
    LET cases == cases_to_evaluate(test_cases_arg, loaded)
        err   == entry_error(cases, byname)
    IN  IF err # "" THEN [err |-> err, result |-> <<>>, calls |-> <<>>]
        ELSE Bind(layer_loop(NumLayers, reg, ml, ms, ag, cases),
                  LAMBDA run :
                    IF run.raised
                    THEN [err |-> ValidationError, result |-> <<>>, calls |-> run.calls]
                    ELSE [err |-> "",
                          result |->
                              <<[agent_id |-> aid,
                                 overall_score |-> overall_score(run.layer_results),
                                 layers |-> run.layer_results,
                                 critical_issues |-> run.all_critical_issues,
                                 test_cases_count |-> Len(cases),
                                 passed |-> overall_passed(run.all_critical_issues)]>>,
                          calls |-> run.calls])

\* add_metric(metric, layer): the layer attribute after the call and the
\* outcome of register().
add_metric(reg, byname, ml, m, layer) ==
    LET lay == IF layer # None THEN layer[1] ELSE ml[m]
        r   == register(reg, byname, m, lay)
    IN  [err |-> r.err, registry |-> r.registry, layer |-> lay]

(***************************************************************************)
(* The state machine.  A caller makes one call at a time on the evaluator: *)
(* the call runs to its end (pc = "returned", its outcome in `call`), and  *)
(* Return hands control back.                                              *)
(***************************************************************************)
NoCall ==
    [op |-> "none", metric |-> None, layer |-> None, name |-> None,
     test_cases |-> None, err |-> "", result |-> <<>>, calls |-> <<>>]

\* The state after AgentEvaluator(agent, agent_id="agent_0") and the construction
\* of the three metrics: m1 and m3 with their default severity (CRITICAL), m2
\* with any severity.
Init ==
    /\ metric_layer = [m \in MetricIds |-> DefaultLayer(m)]
    /\ metric_severity \in {f \in [MetricIds -> Severity] :
                               f["m1"] = CRITICAL /\ f["m3"] = CRITICAL}
    /\ _metrics = EmptyRegistry._metrics
    /\ _metrics_by_name = EmptyRegistry._metrics_by_name
    /\ test_cases = <<>>
    /\ agent = "a0"
    /\ agent_id = "agent_0"
    /\ pc = "idle"
    /\ call = NoCall

\* evaluator.load_test_dataset(ds)
LoadTestDataset(ds) ==
    /\ pc = "idle"
    /\ test_cases' = ds
    /\ pc' = "returned"
    /\ call' = [NoCall EXCEPT !.op = "load_test_dataset", !.test_cases = Some(ds)]
    /\ UNCHANGED <<metric_layer, metric_severity, _metrics, _metrics_by_name,
                   agent, agent_id>>

\* evaluator.add_metric(m, layer)
AddMetric(m, layer) ==
    /\ pc = "idle"
    /\ \E r \in {add_metric(_metrics, _metrics_by_name, metric_layer, m, layer)} :
           /\ metric_layer' = [metric_layer EXCEPT ![m] = r.layer]
           /\ _metrics' = r.registry._metrics
           /\ _metrics_by_name' = r.registry._metrics_by_name
           /\ call' = [NoCall EXCEPT !.op = "add_metric", !.metric = Some(m),
                                     !.layer = layer, !.err = r.err]
    /\ pc' = "returned"
    /\ UNCHANGED <<metric_severity, test_cases, agent, agent_id>>

\* evaluator.registry.unregister(n)
Unregister(n) ==
    /\ pc = "idle"
    /\ \E r \in {unregister(_metrics, _metrics_by_name, metric_layer, n)} :
           /\ _metrics' = r.registry._metrics
           /\ _metrics_by_name' = r.registry._metrics_by_name
           /\ call' = [NoCall EXCEPT !.op = "unregister", !.name = Some(n),
                                     !.err = r.err]
    /\ pc' = "returned"
    /\ UNCHANGED <<metric_layer, metric_severity, test_cases, agent, agent_id>>

\* evaluator.evaluate(test_cases_arg)
\* Mutant: evaluate() stores the test cases it resolved in self.test_cases.
test_cases_replaced(test_cases_arg, loaded) ==
    cases_to_evaluate(test_cases_arg, loaded)

\* self.test_cases after evaluate(): the resolved test cases are bound to the
\* local cases_to_evaluate, the attribute is only read.
test_cases_after_evaluate(test_cases_arg, loaded) ==
    loaded

Evaluate(test_cases_arg) ==
    /\ pc = "idle"
    /\ \E r \in {evaluate(test_cases_arg, test_cases, _metrics, _metrics_by_name,
                             metric_layer, metric_severity, agent, agent_id)} :
           call' = [NoCall EXCEPT !.op = "evaluate", !.test_cases = test_cases_arg,
                                  !.err = r.err, !.result = r.result,
                                  !.calls = r.calls]
    /\ pc' = "returned"
    /\ test_cases' = test_cases_after_evaluate(test_cases_arg, test_cases)
    /\ UNCHANGED <<metric_layer, metric_severity, _metrics, _metrics_by_name,
                   agent, agent_id>>

\* The caller takes the outcome of the call.
Return ==
    /\ pc = "returned"
    /\ pc' = "idle"
    /\ call' = NoCall
    /\ UNCHANGED <<metric_layer, metric_severity, _metrics, _metrics_by_name,
                   test_cases, agent, agent_id>>

Next ==
    \/ \E ds \in Datasets : LoadTestDataset(ds)
    \/ \E m \in MetricIds, layer \in LayerArgs : AddMetric(m, layer)
    \/ \E n \in Names : Unregister(n)
    \/ \E arg \in {None} \cup {Some(ds) : ds \in Datasets} : Evaluate(arg)
    \/ Return

Spec == Init /\ [][Next]_vars

(***************************************************************************)
(* Properties.  They are stated on the outcome of the call that has just   *)
(* ended, with integer arithmetic on the numerators and denominators of    *)
(* the scores.                                                             *)
(***************************************************************************)
EvaluateReturned ==
    pc = "returned" /\ call.op = "evaluate"

\* evaluate() has returned an EvaluationResult.
HasResult ==
    EvaluateReturned /\ call.result # <<>>

Result ==
    call.result[1]

\* The places <<layer index, metric index>> of the MetricResults of a result tree.
MetricPlaces(res) ==
    {<<i, j>> \in (1 .. Len(res.layers)) \X (1 .. Cardinality(MetricIds)) :
        j <= Len(res.layers[i].metrics)}

MetricAt(res, p) ==
    res.layers[p[1]].metrics[p[2]]

CriticalFailure(mr) ==
    ~mr.passed /\ mr.severity = CRITICAL

RECURSIVE DenProduct(_, _)
\* The product of the denominators of the first k scores.
DenProduct(scores, k) ==
    IF k = 0 THEN 1 ELSE DenProduct(scores, k - 1) * scores[k][2]

RECURSIVE ScaledSum(_, _, _)
\* P times the sum of the first k scores, for P a multiple of their denominators.
ScaledSum(scores, k, P) ==
    IF k = 0 THEN 0
    ELSE ScaledSum(scores, k - 1, P) + scores[k][1] * (P \div scores[k][2])

\* x is the sum of the scores divided by their number.
IsMeanOf(x, scores) ==
    LET P == DenProduct(scores, Len(scores))
    IN  x[1] * Len(scores) * P = x[2] * ScaledSum(scores, Len(scores), P)

\* C1: an EvaluationResult returned by evaluate() has passed = true exactly when
\* no MetricResult of any of its layers has failed with severity CRITICAL; failed
\* WARNING and INFO metrics do not make it false.
C1_PassedIffNoCriticalFailure ==
    HasResult =>
        (Result.passed <=>
            ~ \E p \in MetricPlaces(Result) : CriticalFailure(MetricAt(Result, p)))

\* A passed evaluation that holds a failed metric of severity WARNING or INFO.
C1_Witness ==
    /\ HasResult
    /\ Result.passed
    /\ \E p \in MetricPlaces(Result) :
           /\ ~MetricAt(Result, p).passed
           /\ MetricAt(Result, p).severity \in {WARNING, INFO}

\* C2: the status of every LayerResult produced by evaluate() is "pass" exactly
\* when every MetricResult of the layer has passed, whatever the severities, and
\* the stored status agrees with the derived passed property.
C2_LayerStatusIffAllPassed ==
    HasResult =>
        \A i \in 1 .. Len(Result.layers) :
            LET layer == Result.layers[i]
            IN  /\ layer.status \in {"pass", "fail"}
                /\ layer.status = "pass" <=>
                       \A j \in 1 .. Len(layer.metrics) : layer.metrics[j].passed
                /\ layer.status = "pass" <=> layer_passed(layer)

\* A failed layer whose only failures are not critical ones.
C2_Witness ==
    /\ HasResult
    /\ \E i \in 1 .. Len(Result.layers) :
           /\ Result.layers[i].status = "fail"
           /\ \A j \in 1 .. Len(Result.layers[i].metrics) :
                  ~CriticalFailure(Result.layers[i].metrics[j])

\* C3: overall_score is the sum of the five layer scores divided by 5, a layer
\* without registered metrics contributing 1.0.
C3_OverallScoreIsMeanOfFive ==
    HasResult =>
        /\ Len(Result.layers) = 5
        /\ \A i \in 1 .. 5 : _metrics[i] = <<>> => Result.layers[i].score = One
        /\ LET scores == [i \in 1 .. 5 |-> Result.layers[i].score]
               P      == DenProduct(scores, 5)
           IN  Result.overall_score[1] * 5 * P
                   = Result.overall_score[2] * ScaledSum(scores, 5, P)

\* A result with layers without metrics and a layer that scores less than 1.0.
C3_Witness ==
    /\ HasResult
    /\ \E i \in 1 .. 5 : _metrics[i] = <<>>
    /\ \E i \in 1 .. 5 : Result.layers[i].score = Half
    /\ Result.overall_score # One

\* The test cases evaluate() has used, by the way the code resolves them.
CasesUsed ==
    cases_to_evaluate(call.test_cases, test_cases)

\* C4: the aggregated MetricResult of every registered metric has the mean of
\* its per-test-case scores as score and passed = (score >= threshold): a score
\* equal to the threshold passes, a lower one fails.
C4_MetricScoreAndVerdict ==
    HasResult =>
        \A p \in MetricPlaces(Result) :
            LET mr  == MetricAt(Result, p)
                thr == MetricThreshold(mr.metric_id)
            IN  /\ p[2] <= Len(_metrics[p[1]])
                /\ mr.metric_id = _metrics[p[1]][p[2]]
                /\ Len(Result.layers[p[1]].metrics) = Len(_metrics[p[1]])
                /\ mr.individual_scores =
                       [i \in 1 .. Len(CasesUsed) |->
                           test_result(mr.metric_id, mr.severity, agent, CasesUsed[i]).score]
                /\ IsMeanOf(mr.score, mr.individual_scores)
                /\ mr.threshold = thr
                /\ mr.passed <=> mr.score[1] * thr[2] >= thr[1] * mr.score[2]

\* A metric whose score is exactly its threshold of 0.5, and has passed.
C4_Witness ==
    /\ HasResult
    /\ \E p \in MetricPlaces(Result) :
           /\ MetricAt(Result, p).score = Half
           /\ MetricAt(Result, p).threshold = Half
           /\ MetricAt(Result, p).passed

\* C5: a layer without registered metrics yields a LayerResult with score 1.0,
\* status "pass" and no metrics, whatever the agent does and whatever the other
\* layers' results are, and the agent is not invoked on behalf of that layer.
C5_VacuousLayer ==
    EvaluateReturned =>
        \A L \in Layers :
            _metrics[L] = <<>> =>
                /\ \A k \in 1 .. Len(call.calls) : call.calls[k].layer # L
                /\ call.result # <<>> =>
                       /\ Result.layers[L].layer_number = L
                       /\ Result.layers[L].score = One
                       /\ Result.layers[L].status = "pass"
                       /\ Result.layers[L].metrics = <<>>

\* A layer without metrics beside a failed layer, the agent having raised.
C5_Witness ==
    /\ HasResult
    /\ \E L \in Layers : _metrics[L] = <<>> /\ Result.layers[L].status = "pass"
    /\ \E L \in Layers : Result.layers[L].status = "fail"
    /\ \E k \in 1 .. Len(call.calls) :
           AgentCall(call.calls[k].agent, call.calls[k].test_case).raised

\* C6: when the agent (or a metric) raises on some test cases, evaluate() still
\* returns an EvaluationResult and does not raise; each unit that raised scores
\* 0.0, and every other test case and every later metric and layer is evaluated.
C6_FailureIsolation ==
    (EvaluateReturned /\ call.err \notin {NoTestCasesError, NoMetricsError}) =>
        /\ call.err = ""
        /\ call.result # <<>>
        /\ Cardinality(MetricPlaces(Result)) = count(_metrics_by_name)
        /\ \A p \in MetricPlaces(Result) :
               /\ MetricAt(Result, p).total = Len(CasesUsed)
               /\ \A i \in 1 .. Len(CasesUsed) :
                      AgentCall(agent, CasesUsed[i]).raised =>
                          MetricAt(Result, p).individual_scores[i] = Zero

\* With the layer attribute of every registered metric in 1..5, the isolation
\* of C6 holds: the failure of C6 needs a registered metric whose layer
\* attribute a rejected add_metric has set outside 1..5.
IsolationWithValidLayers ==
    (\A n \in DOMAIN _metrics_by_name :
         ValidResultLayer(metric_layer[_metrics_by_name[n]]))
        => C6_FailureIsolation

\* C7: evaluate() fails with the no-test-cases error when the resolved list of
\* test cases is empty, and with the no-metrics error when the registry is empty,
\* the test cases being checked first; the agent is not invoked and there is no
\* EvaluationResult.
C7_EntryErrors ==
    EvaluateReturned =>
        /\ CasesUsed = <<>> =>
               call.err = NoTestCasesError /\ call.result = <<>> /\ call.calls = <<>>
        /\ (CasesUsed # <<>> /\ count(_metrics_by_name) = 0) =>
               call.err = NoMetricsError /\ call.result = <<>> /\ call.calls = <<>>
        /\ (CasesUsed # <<>> /\ count(_metrics_by_name) # 0) =>
               call.err \notin {NoTestCasesError, NoMetricsError}

\* evaluate() on an evaluator with neither test cases nor metrics.
C7_Witness ==
    /\ EvaluateReturned
    /\ CasesUsed = <<>>
    /\ count(_metrics_by_name) = 0
    /\ call.err = NoTestCasesError

\* C8: an explicit test_cases argument overrides the loaded dataset: the
\* evaluation uses exactly that list, an empty one included, so that an explicit
\* empty list fails with the no-test-cases error even when a dataset is loaded.
C8_ExplicitOverridesLoaded ==
    (EvaluateReturned /\ call.test_cases # None) =>
        LET given == call.test_cases[1]
        IN  /\ given = <<>> => call.err = NoTestCasesError
            /\ call.result # <<>> => Result.test_cases_count = Len(given)
            /\ \A k \in 1 .. Len(call.calls) : call.calls[k].test_case \in Range(given)

\* The place of metric name n in the bucket of layer L (0 when it is not there).
PlaceInBucket(L, n) ==
    IF \E j \in 1 .. Len(_metrics[L]) : MetricName(_metrics[L][j]) = n
    THEN CHOOSE j \in 1 .. Len(_metrics[L]) : MetricName(_metrics[L][j]) = n
    ELSE 0

\* C9: critical_issues holds exactly one entry for each MetricResult of the five
\* layers that has failed with severity CRITICAL, and no other; the entries are
\* in the order of the layers and, within a layer, of the metrics' registration.
C9_CriticalIssues ==
    HasResult =>
        LET issues == Result.critical_issues
            failed == {p \in MetricPlaces(Result) : CriticalFailure(MetricAt(Result, p))}
        IN  /\ Len(issues) = Cardinality(failed)
            /\ \A p \in failed :
                   \E k \in 1 .. Len(issues) :
                       /\ issues[k][1] = p[1]
                       /\ issues[k][2] = MetricAt(Result, p).metric_name
            /\ \A k \in 1 .. Len(issues) :
                   \E p \in failed :
                       /\ issues[k][1] = p[1]
                       /\ issues[k][2] = MetricAt(Result, p).metric_name
            /\ \A k, l \in 1 .. Len(issues) :
                   k < l =>
                       \/ issues[k][1] < issues[l][1]
                       \/ /\ issues[k][1] = issues[l][1]
                          /\ PlaceInBucket(issues[k][1], issues[k][2])
                                 < PlaceInBucket(issues[l][1], issues[l][2])

\* Two critical failures in one layer.
C9_Witness ==
    /\ HasResult
    /\ Len(Result.critical_issues) = 2
    /\ Result.critical_issues[1][1] = Result.critical_issues[2][1]

\* The step of a call of add_metric, which sets metric.layer and calls register().
AddMetricStep ==
    pc = "idle" /\ call'.op = "add_metric"

\* register() has changed nothing.
RegistryUnchanged ==
    _metrics' = _metrics /\ _metrics_by_name' = _metrics_by_name

\* register() has put m at the end of the bucket of layer lay and under its
\* name, and has changed nothing else.
Registered(m, lay) ==
    /\ lay \in DOMAIN _metrics
    /\ _metrics'[lay] = Append(_metrics[lay], m)
    /\ \A l \in DOMAIN _metrics \ {lay} : _metrics'[l] = _metrics[l]
    /\ DOMAIN _metrics' = DOMAIN _metrics
    /\ get_metric(_metrics_by_name', MetricName(m)) = Some(m)
    /\ \A n \in Names \ {MetricName(m)} :
           get_metric(_metrics_by_name', n) = get_metric(_metrics_by_name, n)
    /\ UNCHANGED <<metric_severity, test_cases, agent, agent_id>>
    /\ \A o \in MetricIds \ {m} : metric_layer'[o] = metric_layer[o]

\* C10, as claimed: register(metric) fails with the duplicate-metric error when
\* a metric of that name is registered (in any layer) and leaves the registry
\* unchanged; otherwise it puts the metric at the end of the bucket of
\* metric.layer and makes it retrievable by name, changing nothing else.
C10_RegisterAsClaimed ==
    [][AddMetricStep =>
          LET m == call'.metric[1]
          IN  IF MetricName(m) \in DOMAIN _metrics_by_name
              THEN call'.err = DuplicateError /\ RegistryUnchanged
              ELSE call'.err = "" /\ Registered(m, metric_layer'[m])]_vars

\* C10, amended: as claimed when metric.layer is one of the five layers; when
\* the name is not registered and metric.layer is not in 1..5, register(metric)
\* fails with a KeyError and leaves the registry unchanged.
C10_Register ==
    [][AddMetricStep =>
          LET m == call'.metric[1]
          IN  IF MetricName(m) \in DOMAIN _metrics_by_name
              THEN call'.err = DuplicateError /\ RegistryUnchanged
              ELSE IF metric_layer'[m] \in 1 .. 5
              THEN call'.err = "" /\ Registered(m, metric_layer'[m])
              ELSE call'.err = LayerKeyError /\ RegistryUnchanged]_vars

\* A metric has been registered behind another one of its layer.
C10_Witness ==
    /\ pc = "returned"
    /\ call.op = "add_metric"
    /\ call.err = ""
    /\ LET bucket == _metrics[metric_layer[call.metric[1]]]
       IN  Len(bucket) = 2 /\ bucket[2] = call.metric[1]

\* The step of a call of unregister.
UnregisterStep ==
    pc = "idle" /\ call'.op = "unregister"

\* The metric registered under name n is gone from the name index and from every
\* bucket; the other metrics keep their buckets, their order and their names.
Unregistered(n) ==
    LET m == _metrics_by_name[n]
    IN  /\ DOMAIN _metrics_by_name' = DOMAIN _metrics_by_name \ {n}
        /\ \A k \in DOMAIN _metrics_by_name' :
               _metrics_by_name'[k] = _metrics_by_name[k]
        /\ DOMAIN _metrics' = DOMAIN _metrics
        /\ \A L \in DOMAIN _metrics :
               _metrics'[L] = SelectSeq(_metrics[L], LAMBDA x : x # m)

\* C11: unregister(name) fails with the not-found error when the name is not
\* registered, leaving the registry unchanged; when the name is registered it
\* succeeds, and the metric is removed from its layer bucket and from the name
\* index, the remaining metrics keeping their relative order.
C11_Unregister ==
    [][UnregisterStep =>
          LET n == call'.name[1]
          IN  IF n \notin DOMAIN _metrics_by_name
              THEN call'.err = NotFoundError /\ RegistryUnchanged
              ELSE call'.err = "" /\ Unregistered(n)]_vars

\* With the registered metric in the bucket of its layer attribute, unregister
\* does as C11 says: the failure of C11 needs a layer attribute that a rejected
\* add_metric has changed after the registration.
UnregisterWithLayerInPlace ==
    [][UnregisterStep =>
          LET n == call'.name[1]
          IN  IF n \notin DOMAIN _metrics_by_name
              THEN call'.err = NotFoundError /\ RegistryUnchanged
              ELSE LET m == _metrics_by_name[n]
                   IN  (/\ metric_layer[m] \in DOMAIN _metrics
                        /\ m \in Range(_metrics[metric_layer[m]]))
                           => (call'.err = "" /\ Unregistered(n))]_vars

(***************************************************************************)
(* The registry used on its own (core/registry.py): register, unregister,  *)
(* clear and get_metrics_by_layer called on evaluator.registry, the layer  *)
(* attribute of a metric staying as it is while the metric is registered.  *)
(*                                                                         *)
(* A Python list is an object: the list get_metrics_by_layer returns is    *)
(* either a bucket of the registry itself (bucket = the layer) or a list   *)
(* of its own (bucket = None), and a mutation through a reference to a     *)
(* bucket changes the registry.                                            *)
(***************************************************************************)
\* Mutant: the name index is emptied, the buckets are kept.
clear_index_only(reg, byname) ==
    Registry(reg, <<>>)

\* clear()
clear(reg, byname) ==
    Registry([l \in DOMAIN reg |-> <<>>], <<>>)

\* Mutant: the bucket itself is returned.
no_copy(layer, items) ==
    [bucket |-> Some(layer), items |-> items]

\* list.copy() of the bucket of a layer: a new list with the same items.
copy(layer, items) ==
    [bucket |-> None, items |-> items]

InvalidLayerError == "ValueError: Invalid layer"

\* get_metrics_by_layer(layer) as a call: [err, list (none or one list object)].
get_metrics_by_layer_call(reg, layer) ==
    IF layer \notin DOMAIN reg
    THEN [err |-> InvalidLayerError, list |-> None]
    ELSE [err |-> "", list |-> Some(copy(layer, get_metrics_by_layer(reg, layer)))]

\* The layers get_metrics_by_layer is called with: 0 and 6 are no layers.
LayerQueries == 0 .. NumLayers + 1

\* The caller's mutations of a list: append(x), pop(), reverse().
ListMutations ==
    {<<"append", m>> : m \in MetricIds} \cup {<<"pop">>, <<"reverse">>}

Reverse(s) ==
    [i \in 1 .. Len(s) |-> s[Len(s) + 1 - i]]

\* The items of a list after a mutation (pop() of an empty list raises and
\* leaves it empty).
mutate(items, mu) ==
    CASE mu[1] = "append" -> Append(items, mu[2])
      [] mu[1] = "pop"    -> IF items = <<>> THEN items
                             ELSE SubSeq(items, 1, Len(items) - 1)
      [] OTHER            -> Reverse(items)

\* The layers the metrics have been constructed with (or given by an accepted
\* add_metric with a layer override before they were unregistered again).
RegistryInit ==
    /\ metric_layer \in [MetricIds -> {1, 2}]
    /\ metric_severity = [m \in MetricIds |-> CRITICAL]
    /\ _metrics = EmptyRegistry._metrics
    /\ _metrics_by_name = EmptyRegistry._metrics_by_name
    /\ test_cases = <<>>
    /\ agent = "a0"
    /\ agent_id = "agent_0"
    /\ pc = "idle"
    /\ call = NoCall

\* evaluator.registry.register(m)
Register(m) ==
    /\ pc = "idle"
    /\ \E r \in {register(_metrics, _metrics_by_name, m, metric_layer[m])} :
           /\ _metrics' = r.registry._metrics
           /\ _metrics_by_name' = r.registry._metrics_by_name
           /\ call' = [NoCall EXCEPT !.op = "register", !.metric = Some(m),
                                     !.err = r.err]
    /\ pc' = "returned"
    /\ UNCHANGED <<metric_layer, metric_severity, test_cases, agent, agent_id>>

\* evaluator.registry.clear()
Clear ==
    /\ pc = "idle"
    /\ \E r \in {clear(_metrics, _metrics_by_name)} :
           /\ _metrics' = r._metrics
           /\ _metrics_by_name' = r._metrics_by_name
    /\ call' = [NoCall EXCEPT !.op = "clear"]
    /\ pc' = "returned"
    /\ UNCHANGED <<metric_layer, metric_severity, test_cases, agent, agent_id>>

\* evaluator.registry.get_metrics_by_layer(layer)
GetMetricsByLayer(layer) ==
    /\ pc = "idle"
    /\ \E r \in {get_metrics_by_layer_call(_metrics, layer)} :
           call' = [NoCall EXCEPT !.op = "get_metrics_by_layer",
                                  !.layer = Some(layer), !.err = r.err,
                                  !.result = r.list]
    /\ pc' = "returned"
    /\ UNCHANGED <<metric_layer, metric_severity, _metrics, _metrics_by_name,
                   test_cases, agent, agent_id>>

\* The caller mutates the list get_metrics_by_layer has returned.  A list of
\* more than three items is not mutated further.
MutateReturnedList(mu) ==
    /\ pc = "returned"
    /\ call.op = "get_metrics_by_layer"
    /\ call.result # <<>>
    /\ Len(call.result[1].items) < Cardinality(MetricIds) \/ mu[1] # "append"
    /\ mutate(call.result[1].items, mu) # call.result[1].items
    /\ \E new \in {mutate(call.result[1].items, mu)} :
           /\ call' = [call EXCEPT !.result = <<[call.result[1] EXCEPT !.items = new]>>]
           /\ _metrics' = IF call.result[1].bucket = None THEN _metrics
                          ELSE [_metrics EXCEPT ![call.result[1].bucket[1]] = new]
    /\ UNCHANGED <<metric_layer, metric_severity, _metrics_by_name, test_cases,
                   agent, agent_id, pc>>

RegistryNext ==
    \/ \E m \in MetricIds : Register(m)
    \/ \E n \in Names : Unregister(n)
    \/ Clear
    \/ \E layer \in LayerQueries : GetMetricsByLayer(layer)
    \/ \E mu \in ListMutations : MutateReturnedList(mu)
    \/ Return

RegistrySpec == RegistryInit /\ [][RegistryNext]_vars

\* The step of a call of get_metrics_by_layer.
GetMetricsByLayerStep ==
    pc = "idle" /\ call'.op = "get_metrics_by_layer"

\* A step in which the caller mutates the list it has been given.
MutationStep ==
    pc = "returned" /\ pc' = "returned" /\ call.op = "get_metrics_by_layer"

\* C12: get_metrics_by_layer(layer) returns, for a layer in 1..5, the metrics of
\* the layer in the order of the bucket (the order of registration) as a list of
\* its own: the call leaves the registry as it is, and so does every mutation of
\* the returned list; for a layer outside 1..5 it fails with the invalid-layer
\* error.
C12_GetMetricsByLayerCopy ==
    [][/\ GetMetricsByLayerStep =>
              /\ RegistryUnchanged
              /\ IF call'.layer[1] \in 1 .. 5
                 THEN /\ call'.err = ""
                      /\ call'.result # <<>>
                      /\ call'.result[1].items = _metrics[call'.layer[1]]
                 ELSE call'.err = InvalidLayerError /\ call'.result = <<>>
       /\ MutationStep =>
              /\ RegistryUnchanged
              /\ call'.result[1].items # call.result[1].items]_vars

\* The caller has emptied or grown the list it got for a layer with two
\* metrics, which are still in the registry, in their order.
C12_Witness ==
    /\ pc = "returned"
    /\ call.op = "get_metrics_by_layer"
    /\ call.result # <<>>
    /\ Len(_metrics[call.layer[1]]) = 2
    /\ _metrics[call.layer[1]][1] = "m3"
    /\ call.result[1].items \in {<<>>, <<"m1", "m3">>}

\* The places <<layer, index>> at which metric m is in the buckets.
PlacesOf(m) ==
    {p \in Layers \X (1 .. Cardinality(MetricIds)) :
        p[2] <= Len(_metrics[p[1]]) /\ _metrics[p[1]][p[2]] = m}

RECURSIVE SumOfCounts(_)
\* count_by_layer(1) + ... + count_by_layer(L)
SumOfCounts(L) ==
    IF L = 0 THEN 0 ELSE SumOfCounts(L - 1) + count_by_layer(_metrics, L)

\* C13: after any sequence of register, unregister and clear, the names of the
\* registered metrics are unique, every registered metric is exactly once in
\* exactly one bucket, the bucket of its layer, and in the name index, and
\* count() is the sum of count_by_layer(L) for L in 1..5.
C13_RegistryInvariant ==
    /\ \A m \in MetricIds :
           IF get_metric(_metrics_by_name, MetricName(m)) = Some(m)
           THEN PlacesOf(m) \subseteq {metric_layer[m]} \X (1 .. Cardinality(MetricIds))
                    /\ Cardinality(PlacesOf(m)) = 1
           ELSE PlacesOf(m) = {}
    /\ \A m, o \in MetricIds :
           (PlacesOf(m) # {} /\ PlacesOf(o) # {} /\ m # o)
               => MetricName(m) # MetricName(o)
    /\ count(_metrics_by_name) = SumOfCounts(NumLayers)
    /\ \A L \in Layers :
           count_by_layer(_metrics, L)
               = Cardinality({m \in MetricIds : \E p \in PlacesOf(m) : p[1] = L})

\* Two metrics share a bucket, in the order of their registration, and the
\* registration of a second metric of a registered name has just been refused.
C13_Witness ==
    /\ pc = "returned"
    /\ call.op = "register"
    /\ call.err = DuplicateError
    /\ count(_metrics_by_name) = 2
    /\ \E L \in Layers : count_by_layer(_metrics, L) = 2

(***************************************************************************)
(* AgentEvaluator.compare (core/evaluator.py).                             *)
(***************************************************************************)
\* The test_cases compare() hands to every evaluate(): the loaded list of the
\* test_dataset argument when that is truthy, None otherwise.
compare_test_cases(test_dataset) ==
    IF test_dataset # None /\ test_dataset[1] # <<>> THEN test_dataset ELSE None

\* self.agent_id = f"agent_{i+1}", for the i-th agent counted from 1.
compare_agent_id(i) ==
    "agent_" \o ToString(i)

\* Mutant: every evaluation runs the first agent of the list.
rebound_agent_first(agents, i) ==
    agents[1]

\* self.agent = agent in the i-th iteration of the loop over the agents.
rebound_agent(agents, i) ==
    agents[i]

RECURSIVE compare_loop(_, _, _, _, _, _, _, _)
\* The loop over the agents after its first k iterations, or up to the
\* iteration in which evaluate() has raised: [err, results, evals], evals holding
\* for every call of evaluate() the agent and agent_id that were bound, the test
\* cases it resolved, its error and its agent invocations.
compare_loop(agents, k, test_cases_arg, loaded, reg, byname, ml, ms) ==
    IF k = 0 THEN [err |-> "", results |-> <<>>, evals |-> <<>>]
    ELSE Bind(compare_loop(agents, k - 1, test_cases_arg, loaded, reg, byname, ml, ms),
              LAMBDA prev :
                IF prev.err # "" THEN prev
                ELSE Bind(evaluate(test_cases_arg, loaded, reg, byname, ml, ms,
                                   rebound_agent(agents, k), compare_agent_id(k)),
                          LAMBDA r :
                            [err |-> r.err,
                             results |-> prev.results \o r.result,
                             evals |-> Append(prev.evals,
                                          [agent |-> rebound_agent(agents, k),
                                           agent_id |-> compare_agent_id(k),
                                           cases |-> cases_to_evaluate(test_cases_arg, loaded),
                                           err |-> r.err,
                                           calls |-> r.calls])]))

\* compare(agents, test_dataset): [err, result, evals] and the evaluator's agent
\* and agent_id after the call.  When an evaluate() raises, the error leaves
\* compare() before the original agent is put back.
compare(agents, test_dataset, loaded, reg, byname, ml, ms, ag, aid) ==
    Bind(compare_loop(agents, Len(agents), compare_test_cases(test_dataset),
                      loaded, reg, byname, ml, ms),
         LAMBDA run :
           [err |-> run.err,
            result |-> IF run.err = "" THEN run.results ELSE <<>>,
            evals |-> run.evals,
            agent |-> IF run.err = "" THEN ag
                      ELSE run.evals[Len(run.evals)].agent,
            agent_id |-> IF run.evals = <<>> THEN aid
                         ELSE run.evals[Len(run.evals)].agent_id])

\* The lists of agents compare() is called with.
AgentLists == {s \in SeqsOver({"a1", "a2"}, Cardinality({"a1", "a2"})) : NoRepeat(s)}

\* The test_dataset arguments compare() is called with.
CompareDatasets == {None, Some(<<>>), Some(<<"t2", "t1">>)}

\* evaluator.compare(agents, test_dataset)
Compare(agents, test_dataset) ==
    /\ pc = "idle"
    /\ \E r \in {compare(agents, test_dataset, test_cases, _metrics, _metrics_by_name,
                          metric_layer, metric_severity, agent, agent_id)} :
           /\ agent' = r.agent
           /\ agent_id' = r.agent_id
           /\ call' = [op |-> "compare", metric |-> None, layer |-> None,
                       name |-> None, test_cases |-> test_dataset, err |-> r.err,
                       result |-> r.result, calls |-> r.evals, agents |-> agents]
    /\ pc' = "returned"
    /\ UNCHANGED <<metric_layer, metric_severity, _metrics, _metrics_by_name,
                   test_cases>>

\* The lists of test cases _evaluate_layer is called with directly.
LayerCases == {<<>>, <<"t1">>}

\* evaluator._evaluate_layer(layer_num, cases), called on the evaluator itself.
EvaluateLayer(layer_num, cases) ==
    /\ pc = "idle"
    /\ \E r \in {_evaluate_layer(layer_num, _metrics, metric_layer, metric_severity,
                                  agent, cases)} :
           call' = [op |-> "_evaluate_layer", metric |-> None, layer |-> Some(layer_num),
                    name |-> None, test_cases |-> Some(cases), err |-> r.err,
                    result |-> r.results, calls |-> r.calls, agents |-> <<>>]
    /\ pc' = "returned"
    /\ UNCHANGED <<metric_layer, metric_severity, _metrics, _metrics_by_name,
                   test_cases, agent, agent_id>>

\* The evaluator used to compare agents: test cases are loaded, metrics added
\* in their own layers, agents compared and evaluated, as a whole and layer by
\* layer.
CompareNext ==
    \/ \E ds \in Datasets : LoadTestDataset(ds)
    \/ \E m \in MetricIds : AddMetric(m, None)
    \/ \E agents \in AgentLists, ds \in CompareDatasets : Compare(agents, ds)
    \/ \E arg \in {None} \cup {Some(ds) : ds \in Datasets} : Evaluate(arg)
    \/ \E layer_num \in Layers, cases \in LayerCases : EvaluateLayer(layer_num, cases)
    \/ Return

CompareSpec == Init /\ [][CompareNext]_vars

\* The step of a call of compare.
CompareStep ==
    pc = "idle" /\ call'.op = "compare"

\* C14: a compare(agents, dataset) in which every evaluate() succeeds calls
\* evaluate() once for every agent, in the order of the list and on the same
\* resolved list of test cases, returns one result for every agent, the i-th one
\* being the evaluation of agents[i] alone (every agent invocation behind it is
\* one of agents[i]), and leaves the evaluator's agent as it was before the call.
C14_CompareSequential ==
    [][(CompareStep /\ call'.err = "") =>
          LET agents   == call'.agents
              resolved == IF call'.test_cases # None /\ call'.test_cases[1] # <<>>
                          THEN call'.test_cases[1] ELSE test_cases
          IN  /\ Len(call'.calls) = Len(agents)
              /\ Len(call'.result) = Len(agents)
              /\ \A i \in 1 .. Len(agents) :
                     /\ call'.calls[i].agent = agents[i]
                     /\ call'.calls[i].cases = resolved
                     /\ call'.calls[i].calls # <<>>
                     /\ \A k \in 1 .. Len(call'.calls[i].calls) :
                            call'.calls[i].calls[k].agent = agents[i]
                     /\ <<call'.result[i]>> =
                            evaluate(Some(resolved), <<>>, _metrics, _metrics_by_name,
                                     metric_layer, metric_severity, agents[i],
                                     call'.result[i].agent_id).result
              /\ agent' = agent]_vars

\* Two agents have been compared, with different results.
C14_Witness ==
    /\ pc = "returned"
    /\ call.op = "compare"
    /\ call.err = ""
    /\ Len(call.result) = 2
    /\ call.result[1].overall_score # call.result[2].overall_score
    /\ call.result[1].test_cases_count = 2

(***************************************************************************)
(* Python floats.  A score is an IEEE 754 binary64 number, and the sums    *)
(* and quotients of the aggregation are rounded to 53 significant bits     *)
(* (round to nearest, ties to even).  A non-negative finite float is       *)
(* <<bits, exp>> with the value N * 2^exp, N the natural number with the   *)
(* binary digits `bits` (most significant first, neither a leading nor a   *)
(* trailing zero, so that every value has one representation); 0.0 is      *)
(* <<<<>>, 0>>.  The scores are far from the subnormal and the overflow    *)
(* range, which are left out.                                              *)
(***************************************************************************)
\* The significand of a binary64 number has 53 bits.
MantissaBits == 53

FZero == <<<<>>, 0>>

Zeros(n) ==
    [i \in 1 .. n |-> 0]

\* The positions of the digits 1 of bits.
Ones(bits) ==
    {i \in 1 .. Len(bits) : bits[i] = 1}

\* The representation of N(bits) * 2^exp.
Canonical(bits, exp) ==
    Bind(Ones(bits),
         LAMBDA ones :
           IF ones = {} THEN FZero
           ELSE LET first == CHOOSE i \in ones : \A j \in ones : i <= j
                    last  == CHOOSE i \in ones : \A j \in ones : i >= j
                IN  <<SubSeq(bits, first, last), exp + Len(bits) - last>>)

RECURSIVE AddBits(_, _, _, _, _)
\* The digits lo .. hi of N(a) + N(b), for a and b of the same length and the
\* carry into digit hi, and the carry out of digit lo: [digits, carry].  The
\* lower half of the digits is added first, then the upper half.
AddBits(a, b, lo, hi, carry) ==
    IF lo > hi THEN [digits |-> <<>>, carry |-> carry]
    ELSE IF lo = hi
    THEN [digits |-> <<(a[lo] + b[lo] + carry) % 2>>,
          carry |-> (a[lo] + b[lo] + carry) \div 2]
    ELSE Bind(AddBits(a, b, (lo + hi) \div 2 + 1, hi, carry),
              LAMBDA low :
                Bind(AddBits(a, b, lo, (lo + hi) \div 2, low.carry),
                     LAMBDA high :
                       [digits |-> high.digits \o low.digits, carry |-> high.carry]))

\* The digits of N(a) + N(b) + carry, for a and b of the same length.
Plus(a, b, carry) ==
    Bind(AddBits(a, b, 1, Len(a), carry),
         LAMBDA sum : <<sum.carry>> \o sum.digits)

\* x rounded to MantissaBits significant bits, to nearest and ties to even.
Round(x) ==
    IF Len(x[1]) <= MantissaBits THEN x
    ELSE LET kept   == SubSeq(x[1], 1, MantissaBits)
             guard  == x[1][MantissaBits + 1]
             \* the last digit of x is a 1: beyond the guard digit there is a 1
             sticky == Len(x[1]) > MantissaBits + 1
             exp    == x[2] + Len(x[1]) - MantissaBits
         IN  IF guard = 1 /\ (sticky \/ kept[MantissaBits] = 1)
             THEN Canonical(Plus(kept, Zeros(MantissaBits), 1), exp)
             ELSE Canonical(kept, exp)

\* The digits of x and y over their common exponent, at the same length.
Aligned(x, y) ==
    LET exp == IF x[2] <= y[2] THEN x[2] ELSE y[2]
        xs  == x[1] \o Zeros(x[2] - exp)
        ys  == y[1] \o Zeros(y[2] - exp)
        len == IF Len(xs) >= Len(ys) THEN Len(xs) ELSE Len(ys)
    IN  [x |-> Zeros(len - Len(xs)) \o xs, y |-> Zeros(len - Len(ys)) \o ys, exp |-> exp]

\* x + y
FAdd(x, y) ==
    Bind(Aligned(x, y),
         LAMBDA al : Round(Canonical(Plus(al.x, al.y, 0), al.exp)))

\* x >= y
FGeq(x, y) ==
    Bind(Aligned(x, y),
         LAMBDA al :
           \/ al.x = al.y
           \/ \E i \in 1 .. Len(al.x) :
                  /\ al.x[i] = 1 /\ al.y[i] = 0
                  /\ SubSeq(al.x, 1, i - 1) = SubSeq(al.y, 1, i - 1))

RECURSIVE LongDivision(_, _, _, _, _)
\* Long division by n of the digits lo .. hi of bits, r being the remainder
\* left by the digits before them: [q, r], the digits of the quotient and the
\* remainder.  The upper half of the digits is divided first.
LongDivision(bits, lo, hi, n, r) ==
    IF lo > hi THEN [q |-> <<>>, r |-> r]
    ELSE IF lo = hi
    THEN IF 2 * r + bits[lo] >= n
         THEN [q |-> <<1>>, r |-> 2 * r + bits[lo] - n]
         ELSE [q |-> <<0>>, r |-> 2 * r + bits[lo]]
    ELSE Bind(LongDivision(bits, lo, (lo + hi) \div 2, n, r),
              LAMBDA high :
                Bind(LongDivision(bits, (lo + hi) \div 2 + 1, hi, n, high.r),
                     LAMBDA low :
                       [q |-> high.q \o low.q, r |-> low.r]))

RECURSIVE BitsOf(_)
\* The binary digits of the natural number k.
BitsOf(k) ==
    IF k = 0 THEN <<>> ELSE Append(BitsOf(k \div 2), k % 2)

\* x / n for an integer n in 1 .. 2^30 - 1, which is exact in binary64: the
\* digits of x are extended by `more` zeros, so that the quotient has more than
\* MantissaBits + 1 digits; a last digit 1 stands for a remainder; the result
\* is rounded.
FDivInt(x, n) ==
    IF x = FZero THEN FZero
    ELSE Bind(MantissaBits + 2 + Len(BitsOf(n)),
              LAMBDA more :
                Bind(LongDivision(x[1] \o Zeros(more), 1, Len(x[1]) + more, n, 0),
                     LAMBDA d :
                       Round(Canonical(d.q \o <<IF d.r = 0 THEN 0 ELSE 1>>,
                                       x[2] - more - 1))))

\* float(k)
FromInt(k) ==
    Canonical(BitsOf(k), 0)

FOne == FromInt(1)

(***************************************************************************)
(* An evaluator with one APILatency metric                                 *)
(* (metrics/layer3/api_latency.py), whose per-test-case scores are         *)
(* fractions: the aggregation of _evaluate_layer and evaluate              *)
(* (core/evaluator.py) in float arithmetic.                                *)
(***************************************************************************)
\* APILatency(max_latency_ms=100, ...)
max_latency_ms == 100

\* Two APILatency objects: APILatency(100, threshold=0.4) and
\* APILatency(100, threshold=0.95).
LatencyMetricIds == {"lat1", "lat2"}

\* The float of the literals 0.4 and 0.95.
LatencyThreshold(m) ==
    IF m = "lat1" THEN FDivInt(FromInt(4), 10) ELSE FDivInt(FromInt(95), 100)

\* The test cases of the latency evaluations, and the latency_ms the agent
\* reports on each of them.
LatencyCaseIds == {"l1", "l2", "l3", "l4"}

latency_ms(tc) ==
    CASE tc = "l1" -> 100
      [] tc = "l2" -> 1000
      [] tc = "l3" -> 1000
      [] OTHER     -> 200

\* The lists of test cases: some of the cases, not all of them, in any order.
LatencyDatasets ==
    {s \in SeqsOver(LatencyCaseIds, Cardinality(LatencyCaseIds) - 1) : NoRepeat(s)}

\* Mutant: the score falls with the distance from the ceiling, 1 - (latency - max) / max.
api_latency_score_linear(latency) ==
    IF latency <= max_latency_ms THEN FOne
    ELSE IF latency >= 2 * max_latency_ms THEN FZero
    ELSE FDivInt(FromInt(2 * max_latency_ms - latency), max_latency_ms)

\* The score APILatency.evaluate gives to a latency, clamped to [0, 1].
api_latency_score(latency) ==
    IF latency <= max_latency_ms THEN FOne
    ELSE Bind(FDivInt(FromInt(max_latency_ms), latency),
              LAMBDA score : IF FGeq(score, FOne) THEN FOne ELSE score)

RECURSIVE FSumFrom(_, _)
\* Python's sum() of floats: the items added left to right, starting from 0.
FSumFrom(s, i) ==
    IF i = 0 THEN FZero
    ELSE Bind(FSumFrom(s, i - 1), LAMBDA before : FAdd(before, s[i]))

\* sum(xs) / len(xs) in floats.
FMean(s) ==
    FDivInt(FSumFrom(s, Len(s)), Len(s))

\* evaluate() of an evaluator whose registry holds the APILatency m in layer 3,
\* on a non-empty list of test cases: the EvaluationResult.
latency_evaluate(m, sev, cases, aid) ==
    Bind([i \in 1 .. Len(cases) |-> api_latency_score(latency_ms(cases[i]))],
         LAMBDA individual_scores :
           Bind(FMean(individual_scores),
                LAMBDA avg_score :
                  LET passed == FGeq(avg_score, LatencyThreshold(m))
                      metric_result ==
                          [metric_id |-> m, metric_name |-> "API Latency", layer |-> 3,
                           score |-> avg_score, threshold |-> LatencyThreshold(m),
                           passed |-> passed, severity |-> sev,
                           total |-> Len(cases),
                           individual_scores |-> individual_scores]
                  IN  Bind([l \in Layers |->
                               IF l # 3
                               THEN [layer_number |-> l, layer_name |-> LAYER_NAMES[l],
                                     score |-> FOne, status |-> "pass", metrics |-> <<>>]
                               ELSE [layer_number |-> l, layer_name |-> LAYER_NAMES[l],
                                     score |-> FMean(<<avg_score>>),
                                     status |-> IF passed THEN "pass" ELSE "fail",
                                     metrics |-> <<metric_result>>]],
                           LAMBDA layer_results :
                             [agent_id |-> aid,
                              overall_score |->
                                  FMean([l \in Layers |-> layer_results[l].score]),
                              layers |-> layer_results,
                              critical_issues |->
                                  IF ~passed /\ sev = CRITICAL
                                  THEN <<issue(3, metric_result)>> ELSE <<>>,
                              test_cases_count |-> Len(cases),
                              passed |-> passed \/ sev # CRITICAL])))

\* The state after AgentEvaluator(agent, agent_id="agent_0") and
\* add_metric(APILatency(...)) with one of the two thresholds and any severity.
LatencyInit ==
    \E m \in LatencyMetricIds, sev \in Severity :
        /\ metric_layer = (m :> 3)
        /\ metric_severity = (m :> sev)
        /\ _metrics = [l \in Layers |-> IF l = 3 THEN <<m>> ELSE <<>>]
        /\ _metrics_by_name = ("API Latency" :> m)
        /\ test_cases = <<>>
        /\ agent = "timed"
        /\ agent_id = "agent_0"
        /\ pc = "idle"
        /\ call = NoCall

\* evaluator.evaluate(test_cases_arg) with the APILatency metric.
EvaluateLatency(test_cases_arg) ==
    /\ pc = "idle"
    /\ \E cases \in {cases_to_evaluate(test_cases_arg, test_cases)} :
           call' = [NoCall EXCEPT
                       !.op = "evaluate", !.test_cases = test_cases_arg,
                       !.err = entry_error(cases, _metrics_by_name),
                       !.result =
                           IF entry_error(cases, _metrics_by_name) # "" THEN <<>>
                           ELSE <<latency_evaluate(_metrics[3][1],
                                                   metric_severity[_metrics[3][1]],
                                                   cases, agent_id)>>]
    /\ pc' = "returned"
    /\ UNCHANGED <<metric_layer, metric_severity, _metrics, _metrics_by_name,
                   test_cases, agent, agent_id>>

IsPermutation(s, t) ==
    /\ Len(s) = Len(t)
    /\ \E f \in [1 .. Len(s) -> 1 .. Len(s)] :
           /\ \A i, j \in 1 .. Len(s) : i # j => f[i] # f[j]
           /\ \A i \in 1 .. Len(s) : s[i] = t[f[i]]

\* The loaded test cases are evaluated as they are or in another order.
LatencyNext ==
    \/ \E ds \in LatencyDatasets : LoadTestDataset(ds)
    \/ \E arg \in {None} \cup {Some(ds) : ds \in {p \in LatencyDatasets :
                                                    IsPermutation(p, test_cases)}} :
           EvaluateLatency(arg)
    \/ Return

LatencySpec == LatencyInit /\ [][LatencyNext]_vars

\* C15: for a deterministic agent, the evaluation of a permutation of a list of
\* test cases gives every metric the same score and verdict, every layer the
\* same score and status, and the same overall_score and passed as the
\* evaluation of the list itself.
C15_OrderIndependent ==
    (/\ pc = "returned" /\ call.op = "evaluate" /\ call.result # <<>>
     /\ call.test_cases # None
     /\ IsPermutation(call.test_cases[1], test_cases))
        => \E other \in {latency_evaluate(_metrics[3][1], metric_severity[_metrics[3][1]],
                                          test_cases, agent_id)} :
               /\ Result.overall_score = other.overall_score
               /\ Result.passed = other.passed
               /\ \A l \in Layers :
                      /\ Result.layers[l].score = other.layers[l].score
                      /\ Result.layers[l].status = other.layers[l].status
                      /\ \A j \in 1 .. Len(Result.layers[l].metrics) :
                             /\ Result.layers[l].metrics[j].score
                                    = other.layers[l].metrics[j].score
                             /\ Result.layers[l].metrics[j].passed
                                    = other.layers[l].metrics[j].passed

\* The tolerance 1e-9 of a comparison of scores.
Tolerance == FDivInt(FromInt(1), 1000000000)

\* x and y differ by no more than the tolerance.
Close(x, y) ==
    FGeq(FAdd(x, Tolerance), y) /\ FGeq(FAdd(y, Tolerance), x)

\* The scores of C15 agree within the tolerance of 1e-9, whatever the order of
\* the test cases: what the order changes is the last digits of a mean, and with
\* them a verdict when the mean is at the threshold.
ScoresWithinTolerance ==
    (/\ pc = "returned" /\ call.op = "evaluate" /\ call.result # <<>>
     /\ call.test_cases # None
     /\ IsPermutation(call.test_cases[1], test_cases))
        => \E other \in {latency_evaluate(_metrics[3][1], metric_severity[_metrics[3][1]],
                                          test_cases, agent_id)} :
               /\ Close(Result.overall_score, other.overall_score)
               /\ \A l \in Layers :
                      /\ Close(Result.layers[l].score, other.layers[l].score)
                      /\ \A j \in 1 .. Len(Result.layers[l].metrics) :
                             Close(Result.layers[l].metrics[j].score,
                                   other.layers[l].metrics[j].score)

(***************************************************************************)
(* The metric classes (core/metric.py, metrics/layer1, metrics/layer2).    *)
(* The constructor and the evaluate() of a metric are functions of their   *)
(* arguments: they are called below on arguments drawn from small sets,    *)
(* on an evaluator whose registry is still empty.                          *)
(***************************************************************************)
\* The layers a metric is constructed with.
ConstructorLayers == -1 .. NumLayers + 2

\* The thresholds a metric is constructed with: -0.25, 0.0, 0.25, ..., 1.25.
ConstructorThresholds == {Rat(n, 4) : n \in -1 .. 5}

LayerValueError == "ValueError: Layer must be between 1 and 5"

ThresholdValueError == "ValueError: Threshold must be between 0 and 1"

\* Mutant: the threshold 1.0 is refused.
threshold_below_one(threshold) ==
    RatGeq(threshold, Zero) /\ ~RatGeq(threshold, One)

\* 0 <= threshold <= 1
threshold_in_range(threshold) ==
    RatGeq(threshold, Zero) /\ RatGeq(One, threshold)

\* BaseMetric.__init__(name, layer, threshold, severity): the error raised and
\* the metric object, whose attributes are assigned after the two checks.
BaseMetric(name, layer, threshold, severity) ==
    IF ~(1 <= layer /\ layer <= 5)
    THEN [err |-> LayerValueError, metric |-> None]
    ELSE IF ~threshold_in_range(threshold)
    THEN [err |-> ThresholdValueError, metric |-> None]
    ELSE [err |-> "",
          metric |-> Some([name |-> name, layer |-> layer, threshold |-> threshold,
                           severity |-> severity])]

\* The metrics are constructed; a rejected add_metric may have left the layer 6
\* on any of them.
MetricInit ==
    /\ metric_layer \in {f \in [MetricIds -> 1 .. NumLayers + 1] :
                            \A m \in MetricIds : f[m] \in {DefaultLayer(m), NumLayers + 1}}
    /\ metric_severity \in {f \in [MetricIds -> Severity] :
                               f["m1"] = CRITICAL /\ f["m3"] = CRITICAL}
    /\ _metrics = EmptyRegistry._metrics
    /\ _metrics_by_name = EmptyRegistry._metrics_by_name
    /\ test_cases = <<>>
    /\ agent = "a0"
    /\ agent_id = "agent_0"
    /\ pc = "idle"
    /\ call = NoCall

\* A subclass of BaseMetric is instantiated: BaseMetric.__init__ runs.
Construct(name, layer, threshold, severity) ==
    /\ pc = "idle"
    /\ \E r \in {BaseMetric(name, layer, threshold, severity)} :
           call' = [op |-> "BaseMetric", metric |-> None, layer |-> Some(layer),
                    name |-> Some(name), test_cases |-> None, err |-> r.err,
                    result |-> r.metric, calls |-> <<>>,
                    threshold |-> threshold, severity |-> severity]
    /\ pc' = "returned"
    /\ UNCHANGED <<metric_layer, metric_severity, _metrics, _metrics_by_name,
                   test_cases, agent, agent_id>>

\* The agent outputs and ground truths a metric is called with; "" stands for
\* a field that is missing.
MetricOutputs ==
    [intent : {"", "refund_request", "complaint"}, decision : {"", "approve", "deny"}]

MetricGroundTruths ==
    [intent : {"", "refund_request"}, decision : {"", "approve"}]

\* metric.evaluate(output, ground_truth) of IntentAccuracy and DecisionAccuracy:
\* the error that leaves the call and the MetricResult.  With a layer outside
\* 1..5 the MetricResult of the try block fails its validation, and so does the
\* one of the except clause.
metric_evaluate_call(m, lay, sev, output, ground_truth) ==
    IF ~ValidResultLayer(lay)
    THEN [err |-> ValidationError, result |-> None]
    ELSE [err |-> "", result |-> Some(metric_evaluate(m, sev, output, ground_truth))]

\* m.evaluate(output, ground_truth), called on the metric itself.
MetricEvaluate(m, output, ground_truth) ==
    /\ pc = "idle"
    /\ \E r \in {metric_evaluate_call(m, metric_layer[m], metric_severity[m],
                                       output, ground_truth)} :
           call' = [op |-> "metric.evaluate", metric |-> Some(m), layer |-> None,
                    name |-> None, test_cases |-> None, err |-> r.err,
                    result |-> r.result, calls |-> <<>>,
                    output |-> output, ground_truth |-> ground_truth]
    /\ pc' = "returned"
    /\ UNCHANGED <<metric_layer, metric_severity, _metrics, _metrics_by_name,
                   test_cases, agent, agent_id>>

(***************************************************************************)
(* EntityExtractionAccuracy (metrics/layer1/entity_extraction.py).  An     *)
(* entities mapping is the set of its items (key, value), one for every    *)
(* key it has.                                                             *)
(***************************************************************************)
EntityKeys == {"name", "date", "amount"}

EntityValues == {"x", "y"}

\* The mappings from some of the keys to values, as sets of items.
EntityDicts ==
    {items \in SUBSET (EntityKeys \X EntityValues) :
        \A a, b \in items : a[1] = b[1] => a = b}

\* true_positives / (true_positives + other) if (true_positives + other) > 0 else 0.0
ratio(true_positives, other) ==
    IF true_positives + other > 0 THEN Rat(true_positives, true_positives + other)
    ELSE Zero

\* Mutant: the arithmetic mean of precision and recall.
f1_arithmetic(precision, recall) ==
    Rat(precision[1] * recall[2] + recall[1] * precision[2],
        2 * precision[2] * recall[2])

\* 0.0 if precision + recall == 0, else 2 * (precision * recall) / (precision + recall)
f1(precision, recall) ==
    IF RatAdd(precision, recall) = Zero THEN Zero
    ELSE Rat(2 * precision[1] * recall[1] * precision[2] * recall[2],
             precision[2] * recall[2]
                 * (precision[1] * recall[2] + recall[1] * precision[2]))

\* _calculate_f1(predicted, true): <<f1, precision, recall>>
_calculate_f1(predicted, true) ==
    IF true = {} THEN <<IF predicted = {} THEN One ELSE Zero, One, One>>
    ELSE LET true_positives  == Cardinality(predicted \cap true)
             false_positives == Cardinality(predicted \ true)
             false_negatives == Cardinality(true \ predicted)
             precision       == ratio(true_positives, false_positives)
             recall          == ratio(true_positives, false_negatives)
         IN  <<f1(precision, recall), precision, recall>>

\* metric._calculate_f1(predicted, true), called on the metric itself.
CalculateF1(predicted, true) ==
    /\ pc = "idle"
    /\ call' = [op |-> "_calculate_f1", metric |-> None, layer |-> None,
                name |-> None, test_cases |-> None, err |-> "",
                result |-> _calculate_f1(predicted, true), calls |-> <<>>,
                predicted |-> predicted, true |-> true]
    /\ pc' = "returned"
    /\ UNCHANGED <<metric_layer, metric_severity, _metrics, _metrics_by_name,
                   test_cases, agent, agent_id>>

\* The latencies (in ms) an agent output reports to APILatency.evaluate.
Latencies == 0 .. (5 * max_latency_ms) \div 2

\* APILatency(max_latency_ms=100).evaluate({"latency_ms": latency}, ...),
\* called on the metric itself: the score of the MetricResult.
LatencyEvaluate(latency) ==
    /\ pc = "idle"
    /\ call' = [op |-> "APILatency.evaluate", metric |-> None, layer |-> None,
                name |-> None, test_cases |-> None, err |-> "",
                result |-> <<api_latency_score(latency)>>, calls |-> <<>>,
                latency_ms |-> latency]
    /\ pc' = "returned"
    /\ UNCHANGED <<metric_layer, metric_severity, _metrics, _metrics_by_name,
                   test_cases, agent, agent_id>>

MetricNext ==
    \/ \E name \in Names, layer \in ConstructorLayers,
          threshold \in ConstructorThresholds, severity \in Severity :
           Construct(name, layer, threshold, severity)
    \/ \E m \in MetricIds, output \in MetricOutputs, ground_truth \in MetricGroundTruths :
           MetricEvaluate(m, output, ground_truth)
    \/ \E predicted \in EntityDicts, true \in EntityDicts : CalculateF1(predicted, true)
    \/ \E latency \in Latencies : LatencyEvaluate(latency)
    \/ Return

MetricSpec == MetricInit /\ [][MetricNext]_vars

\* A construction of a metric has just ended.
Constructed ==
    pc = "returned" /\ call.op = "BaseMetric"

\* C16: the construction of a metric succeeds exactly when the layer is one of
\* 1..5 and the threshold lies in [0, 1]; then the metric carries the layer,
\* threshold and severity it was given.  With any other layer or threshold the
\* constructor raises an error and there is no metric object.
C16_Construction ==
    Constructed =>
        LET layer_ok     == call.layer[1] \in 1 .. 5
            numerator    == call.threshold[1]
            denominator  == call.threshold[2]
            threshold_ok == 0 <= numerator /\ numerator <= denominator
        IN  /\ (call.err = "") <=> (layer_ok /\ threshold_ok)
            /\ call.err # "" => call.result = None
            /\ call.err = "" =>
                   /\ call.result # None
                   /\ call.result[1].layer = call.layer[1]
                   /\ call.result[1].threshold = call.threshold
                   /\ call.result[1].severity = call.severity

\* A metric has been constructed with the largest threshold in the last layer.
C16_Witness ==
    /\ Constructed
    /\ call.err = ""
    /\ call.layer = Some(NumLayers)
    /\ call.threshold = One
    /\ call.result # None

\* A call of evaluate() on a metric has just ended.
MetricEvaluated ==
    pc = "returned" /\ call.op = "metric.evaluate"

\* The field the metric compares is missing from the output or the ground truth.
FieldMissing ==
    \/ call.output[MetricField(call.metric[1])] = ""
    \/ call.ground_truth[MetricField(call.metric[1])] = ""

\* C17: evaluate() of a built-in metric never raises, and when the field it
\* needs is missing from the output or the ground truth it returns a result
\* with the score 0, passed = false, the severity CRITICAL and an error in its
\* details, whatever the threshold and severity of the metric.
C17_BuiltinMetricFailure ==
    MetricEvaluated =>
        /\ call.err = ""
        /\ call.result # None
        /\ FieldMissing =>
               /\ call.result[1].score = Zero
               /\ ~call.result[1].passed
               /\ call.result[1].severity = CRITICAL
               /\ call.result[1].error

\* What the code does: the call raises exactly when the layer of the metric is
\* outside 1..5, and the result for a missing field has the score 0 and an
\* error in its details, but the severity of the metric and the verdict of the
\* comparison of 0 with the threshold.
MissingFieldAsEvaluated ==
    MetricEvaluated =>
        LET m == call.metric[1]
        IN  /\ (call.err = "") <=> ValidResultLayer(metric_layer[m])
            /\ (call.err = "" /\ FieldMissing) =>
                   /\ call.result[1].score = Zero
                   /\ call.result[1].error
                   /\ call.result[1].severity = metric_severity[m]
                   /\ call.result[1].passed = RatGeq(Zero, MetricThreshold(m))

\* A call that aggregates has just ended with a division by zero.
DividedByZero ==
    pc = "returned" /\ call.err = ZeroDivisionError

\* A call of _evaluate_layer without test cases, on a layer that has metrics,
\* has just ended.
EmptyAggregation ==
    /\ pc = "returned"
    /\ call.op = "_evaluate_layer"
    /\ call.test_cases = Some(<<>>)
    /\ _metrics[call.layer[1]] # <<>>

\* C18: no call divides by zero: evaluate() and compare() never aggregate a
\* metric over an empty list of per-test-case results, and the aggregation
\* itself, handed an empty list, is refused with an error of its own before it
\* divides.
C18_EmptyAggregation ==
    /\ ~DividedByZero
    /\ EmptyAggregation => call.err # ""

\* What the code does: evaluate() and compare() never divide by zero, every
\* metric they aggregate has at least one per-test-case result, and
\* _evaluate_layer without test cases divides by zero on a layer with metrics.
EmptyAggregationAsEvaluated ==
    /\ (pc = "returned" /\ call.op \in {"evaluate", "compare"}) =>
           call.err # ZeroDivisionError
    /\ HasResult =>
           \A p \in MetricPlaces(Result) : MetricAt(Result, p).total > 0
    /\ EmptyAggregation => call.err = ZeroDivisionError

(***************************************************************************)
(* Serialization (core/result.py).  to_json is model_dump_json(indent=2):  *)
(* the result becomes a JSON text, modelled as the tree of its values with *)
(* the text of every leaf, laid out one member or item per line and        *)
(* indented by two spaces per level.  from_json first asks whether its     *)
(* argument is the path of an existing file, then parses the text.         *)
(* A float is written with the digits of its decimal expansion (the        *)
(* scores serialized here are multiples of 0.1 or 0.5, which repr() writes *)
(* in full), and read back from these digits.                              *)
(***************************************************************************)
\* repr() writes at most 17 significant digits.
MaxDigits == 17

RECURSIVE FractionDigits(_, _, _)
\* The first k digits after the decimal point of r / d (r < d), without the
\* zeros that follow the last nonzero digit.
FractionDigits(r, d, k) ==
    IF r = 0 \/ k = 0 THEN <<>>
    ELSE <<(10 * r) \div d>> \o FractionDigits((10 * r) % d, d, k - 1)

JsonString(s) == [kind |-> "string", text |-> s]

JsonInt(n) == [kind |-> "int", value |-> n]

JsonLiteral(s) == [kind |-> "literal", text |-> s]

JsonArray(items) == [kind |-> "array", items |-> items]

\* An object: the sequence of its members <<key, value>>.
JsonObject(members) == [kind |-> "object", items |-> members]

\* A float x >= 0: "1.0", "0.5", "0.25".
JsonFloat(x) ==
    [kind |-> "float", int |-> x[1] \div x[2],
     frac |-> LET digits == FractionDigits(x[1] % x[2], x[2], MaxDigits)
              IN  IF digits = <<>> THEN <<0>> ELSE digits]

RECURSIVE DigitsValue(_, _)
\* The number written with the first k digits.
DigitsValue(digits, k) ==
    IF k = 0 THEN 0 ELSE 10 * DigitsValue(digits, k - 1) + digits[k]

RECURSIVE Power10(_)
Power10(k) ==
    IF k = 0 THEN 1 ELSE 10 * Power10(k - 1)

\* The float a JSON number is parsed to.
ParseFloat(v) ==
    Rat(v.int * Power10(Len(v.frac)) + DigitsValue(v.frac, Len(v.frac)),
        Power10(Len(v.frac)))

RECURSIVE JsonLength(_, _)
RECURSIVE ItemsLength(_, _, _)
\* The number of characters of the first k items (or members) of an array (or
\* object) at the given depth, each on its own line, with the commas between
\* them.
ItemsLength(v, k, depth) ==
    IF k = 0 THEN 0
    ELSE ItemsLength(v, k - 1, depth)
         + (IF k > 1 THEN 1 ELSE 0)
         + 1 + 2 * (depth + 1)
         + (IF v.kind = "object"
            THEN Len(v.items[k][1]) + 4 + JsonLength(v.items[k][2], depth + 1)
            ELSE JsonLength(v.items[k], depth + 1))

\* The number of characters of the text of a value at the given depth.
JsonLength(v, depth) ==
    CASE v.kind = "string"  -> Len(v.text) + 2
      [] v.kind = "float"   -> Len(ToString(v.int)) + 1 + Len(v.frac)
      [] v.kind = "int"     -> Len(ToString(v.value))
      [] v.kind = "literal" -> Len(v.text)
      [] OTHER              ->
            IF v.items = <<>> THEN 2
            ELSE 1 + ItemsLength(v, Len(v.items), depth) + 1 + 2 * depth + 1

\* The value of the member `key` of an object.
Member(v, key) ==
    v.items[CHOOSE i \in 1 .. Len(v.items) : v.items[i][1] = key][2]

\* f"eval_{uuid.uuid4().hex}": thirty-two hexadecimal digits.
EvaluationId == "eval_0123456789abcdef0123456789abcdef"

\* datetime.utcnow().isoformat() + "Z"
Timestamp == "2026-01-01T00:00:00.000000Z"

\* f"Layer {layer_num} - {metric_result.metric_name}: Critical failure"
issue_text(i) ==
    "Layer " \o ToString(i[1]) \o " - " \o i[2] \o ": " \o i[3]

\* f"{metric.name} below threshold. Review agent implementation."
remediation_text(metric_result) ==
    IF metric_result.remediation = None THEN None
    ELSE Some(metric_result.metric_name \o " " \o metric_result.remediation[1])

\* The fields of a MetricResult.
metric_fields(mr) ==
    [metric_name |-> mr.metric_name, layer |-> mr.layer, score |-> mr.score,
     threshold |-> mr.threshold, passed |-> mr.passed, severity |-> mr.severity,
     correct |-> mr.correct, total |-> mr.total,
     individual_scores |-> mr.individual_scores,
     remediation |-> remediation_text(mr)]

\* The fields of an EvaluationResult as evaluate() has constructed it, with the
\* texts of its issues and remediations.
model_fields(r) ==
    [evaluation_id |-> EvaluationId,
     timestamp |-> Timestamp,
     agent_id |-> r.agent_id,
     overall_score |-> r.overall_score,
     layers |-> [k \in 1 .. Len(r.layers) |->
                    [layer_number |-> r.layers[k].layer_number,
                     layer_name |-> r.layers[k].layer_name,
                     score |-> r.layers[k].score,
                     status |-> r.layers[k].status,
                     metrics |-> [i \in 1 .. Len(r.layers[k].metrics) |->
                                     metric_fields(r.layers[k].metrics[i])]]],
     critical_issues |-> [i \in 1 .. Len(r.critical_issues) |->
                             issue_text(r.critical_issues[i])],
     test_cases_count |-> r.test_cases_count,
     duration_seconds |-> Half,
     passed |-> r.passed]

JsonBool(b) == JsonLiteral(IF b THEN "true" ELSE "false")

JsonFloats(xs) == JsonArray([i \in 1 .. Len(xs) |-> JsonFloat(xs[i])])

JsonStrings(xs) == JsonArray([i \in 1 .. Len(xs) |-> JsonString(xs[i])])

\* MetricResult.model_dump_json
metric_dump_json(f) ==
    JsonObject(<<
        <<"metric_name", JsonString(f.metric_name)>>,
        <<"layer", JsonInt(f.layer)>>,
        <<"score", JsonFloat(f.score)>>,
        <<"threshold", JsonFloat(f.threshold)>>,
        <<"passed", JsonBool(f.passed)>>,
        <<"severity", JsonString(f.severity)>>,
        <<"details", JsonObject(<<
            <<"correct", JsonInt(f.correct)>>,
            <<"total", JsonInt(f.total)>>,
            <<"individual_scores", JsonFloats(f.individual_scores)>> >>)>>,
        <<"remediation", IF f.remediation = None THEN JsonLiteral("null")
                         ELSE JsonString(f.remediation[1])>> >>)

\* LayerResult.model_dump_json
layer_dump_json(f) ==
    JsonObject(<<
        <<"layer_number", JsonInt(f.layer_number)>>,
        <<"layer_name", JsonString(f.layer_name)>>,
        <<"score", JsonFloat(f.score)>>,
        <<"status", JsonString(f.status)>>,
        <<"metrics", JsonArray([i \in 1 .. Len(f.metrics) |->
                                   metric_dump_json(f.metrics[i])])>>,
        <<"critical_issues", JsonArray(<<>>)>> >>)

\* EvaluationResult.model_dump_json(indent=2)
model_dump_json(f) ==
    JsonObject(<<
        <<"evaluation_id", JsonString(f.evaluation_id)>>,
        <<"timestamp", JsonString(f.timestamp)>>,
        <<"agent_id", JsonString(f.agent_id)>>,
        <<"overall_score", JsonFloat(f.overall_score)>>,
        <<"layers", JsonArray([k \in 1 .. Len(f.layers) |->
                                  layer_dump_json(f.layers[k])])>>,
        <<"critical_issues", JsonStrings(f.critical_issues)>>,
        <<"test_cases_count", JsonInt(f.test_cases_count)>>,
        <<"duration_seconds", JsonFloat(f.duration_seconds)>>,
        <<"passed", JsonBool(f.passed)>>,
        <<"metadata", JsonObject(<<>>)>> >>)

\* result.to_json()
to_json(r) ==
    model_dump_json(model_fields(r))

ParseFloats(v) == [i \in 1 .. Len(v.items) |-> ParseFloat(v.items[i])]

\* MetricResult.model_validate_json
metric_validate_json(v) ==
    [metric_name |-> Member(v, "metric_name").text,
     layer |-> Member(v, "layer").value,
     score |-> ParseFloat(Member(v, "score")),
     threshold |-> ParseFloat(Member(v, "threshold")),
     passed |-> Member(v, "passed").text = "true",
     severity |-> Member(v, "severity").text,
     correct |-> Member(Member(v, "details"), "correct").value,
     total |-> Member(Member(v, "details"), "total").value,
     individual_scores |->
         ParseFloats(Member(Member(v, "details"), "individual_scores")),
     remediation |-> IF Member(v, "remediation").kind = "literal" THEN None
                     ELSE Some(Member(v, "remediation").text)]

\* LayerResult.model_validate_json
layer_validate_json(v) ==
    [layer_number |-> Member(v, "layer_number").value,
     layer_name |-> Member(v, "layer_name").text,
     score |-> ParseFloat(Member(v, "score")),
     status |-> Member(v, "status").text,
     metrics |-> [i \in 1 .. Len(Member(v, "metrics").items) |->
                     metric_validate_json(Member(v, "metrics").items[i])]]

\* EvaluationResult.model_validate_json
model_validate_json(v) ==
    [evaluation_id |-> Member(v, "evaluation_id").text,
     timestamp |-> Member(v, "timestamp").text,
     agent_id |-> Member(v, "agent_id").text,
     overall_score |-> ParseFloat(Member(v, "overall_score")),
     layers |-> [k \in 1 .. Len(Member(v, "layers").items) |->
                    layer_validate_json(Member(v, "layers").items[k])],
     critical_issues |-> [i \in 1 .. Len(Member(v, "critical_issues").items) |->
                             Member(v, "critical_issues").items[i].text],
     test_cases_count |-> Member(v, "test_cases_count").value,
     duration_seconds |-> ParseFloat(Member(v, "duration_seconds")),
     passed |-> Member(v, "passed").text = "true"]

(***************************************************************************)
(* Path(json_str).exists().  The text is taken for a path whose components *)
(* are separated by "/".  The first "/" of the text is the one of the name *)
(* of the first layer, "Input/Output Validation" (identifiers, timestamps  *)
(* and numbers have none): the first component ends there.  stat() fails   *)
(* with ENAMETOOLONG, which exists() does not catch, when the path has     *)
(* PATH_MAX bytes or more or when the component it looks up has more than  *)
(* NAME_MAX bytes; otherwise the first component names no file and         *)
(* exists() is false.                                                      *)
(***************************************************************************)
PATH_MAX == 4096

NAME_MAX == 255

\* The characters of LAYER_NAMES[1] before its "/": "Input".
SlashOffset == 5

\* The number of characters of the text of an object at the given depth, from
\* its "{" to the end of '"key": '.
LengthBefore(v, key, depth) ==
    LET i == CHOOSE k \in 1 .. Len(v.items) : v.items[k][1] = key
    IN  1 + ItemsLength(v, i - 1, depth) + (IF i > 1 THEN 1 ELSE 0)
          + 1 + 2 * (depth + 1) + Len(key) + 4

\* The number of characters before the first "/" of the text.
first_component_length(json) ==
    LengthBefore(json, "layers", 0)
      + 1 + 1 + 2 * 2
      + LengthBefore(Member(json, "layers").items[1], "layer_name", 2)
      + 1 + SlashOffset

OSError == "OSError: [Errno 36] File name too long"

\* EvaluationResult.from_json(json_str): the error raised and the result.
from_json(json) ==
    IF JsonLength(json, 0) >= PATH_MAX \/ first_component_length(json) > NAME_MAX
    THEN [err |-> OSError, result |-> None]
    ELSE [err |-> "", result |-> Some(model_validate_json(json))]

\* The agent_id the evaluator is constructed with.
AgentIds == {"agent_0", "customer-support-agent-eu-west-production"}

\* The test cases the serialized evaluations are run on.
JsonDatasets == {<<"t1">>, <<"t2", "t1">>, <<"t3", "t2">>}

JsonInit ==
    /\ metric_layer = [m \in MetricIds |-> DefaultLayer(m)]
    /\ metric_severity \in {f \in [MetricIds -> Severity] :
                               f["m1"] = CRITICAL /\ f["m3"] = CRITICAL}
    /\ _metrics = EmptyRegistry._metrics
    /\ _metrics_by_name = EmptyRegistry._metrics_by_name
    /\ test_cases = <<>>
    /\ agent = "a0"
    /\ agent_id \in AgentIds
    /\ pc = "idle"
    /\ call = NoCall

\* json_str = result.to_json(), on the result evaluate() has returned.
ToJson ==
    /\ pc = "returned"
    /\ call.op = "evaluate"
    /\ call.result # <<>>
    /\ call' = [op |-> "to_json", metric |-> None, layer |-> None, name |-> None,
                test_cases |-> call.test_cases, err |-> "", result |-> call.result,
                calls |-> <<>>, json |-> to_json(call.result[1])]
    /\ UNCHANGED <<metric_layer, metric_severity, _metrics, _metrics_by_name,
                   test_cases, agent, agent_id, pc>>

\* EvaluationResult.from_json(json_str), on the text to_json() has returned.
FromJson ==
    /\ pc = "returned"
    /\ call.op = "to_json"
    /\ \E r \in {from_json(call.json)} :
           call' = [op |-> "from_json", metric |-> None, layer |-> None,
                    name |-> None, test_cases |-> call.test_cases, err |-> r.err,
                    result |-> r.result, calls |-> <<>>, json |-> call.json,
                    original |-> call.result[1]]
    /\ UNCHANGED <<metric_layer, metric_severity, _metrics, _metrics_by_name,
                   test_cases, agent, agent_id, pc>>

JsonNext ==
    \/ \E m \in MetricIds : AddMetric(m, None)
    \/ \E ds \in JsonDatasets : Evaluate(Some(ds))
    \/ ToJson
    \/ FromJson
    \/ Return

JsonSpec == JsonInit /\ [][JsonNext]_vars

\* from_json(to_json(r)) has just ended.
Loaded ==
    pc = "returned" /\ call.op = "from_json"

\* C19: for every result r of evaluate(), from_json(to_json(r)) returns a
\* result equal to r in every field: the scalar fields, float scores and
\* severities included, and every layer and metric of the nested lists.
C19_RoundTrip ==
    Loaded =>
        /\ call.err = ""
        /\ call.result = Some(model_fields(call.original))

\* What the code does: from_json raises exactly when the text is too long to be
\* looked up as a path, and returns the result otherwise.
RoundTripOfShortTexts ==
    Loaded =>
        LET too_long == \/ JsonLength(call.json, 0) >= PATH_MAX
                        \/ first_component_length(call.json) > NAME_MAX
        IN  /\ (call.err # "") <=> too_long
            /\ call.err = "" => call.result = Some(model_fields(call.original))

\* A call of _calculate_f1 has just ended.
F1Calculated ==
    pc = "returned" /\ call.op = "_calculate_f1"

\* C20: the F1 score of two sets of (key, value) items.  Two empty sets score
\* 1.0, with precision = recall = 1.0; a non-empty expected set and an empty
\* predicted set score 0.0; precision + recall = 0 scores 0.0; in every other
\* case the score is 2PR / (P + R) with P = TP / (TP + FP) and
\* R = TP / (TP + FN), which is 2 TP / (|predicted| + |expected|).
C20_F1Score ==
    F1Calculated =>
        LET predicted == call.predicted
            expected  == call.true
            score     == call.result[1]
            precision == call.result[2]
            recall    == call.result[3]
            TP        == Cardinality(predicted \cap expected)
        IN  /\ (predicted = {} /\ expected = {}) =>
                   score = One /\ precision = One /\ recall = One
            /\ (predicted = {} /\ expected # {}) => score = Zero
            /\ (precision = Zero /\ recall = Zero) => score = Zero
            /\ (predicted # {} \/ expected # {}) =>
                   /\ score[1] * (Cardinality(predicted) + Cardinality(expected))
                          = 2 * TP * score[2]
                   /\ expected # {} =>
                          /\ precision[1] * Cardinality(predicted) = TP * precision[2]
                          /\ recall[1] * Cardinality(expected) = TP * recall[2]

\* Both predicted items are right and one of the three expected items is not
\* found: precision 1.0, recall 2/3, score 4/5.
C20_Witness ==
    /\ F1Calculated
    /\ Cardinality(call.predicted) = 2
    /\ Cardinality(call.true) = 3
    /\ Cardinality(call.predicted \cap call.true) = 2
    /\ call.result = <<Rat(4, 5), One, Rat(2, 3)>>

\* A call of APILatency.evaluate on a reported latency has just ended.
LatencyEvaluated ==
    pc = "returned" /\ call.op = "APILatency.evaluate"

\* C21: the score of a latency is 1.0 when the latency is at most
\* max_latency_ms (also when they are equal), the float quotient
\* max_latency_ms / latency when it is above (0.5 at twice the ceiling), and
\* always lies in [0, 1].
C21_LatencyScore ==
    LatencyEvaluated =>
        LET latency == call.latency_ms
            score   == call.result[1]
        IN  /\ latency <= max_latency_ms => score = FOne
            /\ latency > max_latency_ms =>
                   score = FDivInt(FromInt(max_latency_ms), latency)
            /\ latency = 2 * max_latency_ms => score = <<<<1>>, -1>>
            /\ FGeq(score, FZero) /\ FGeq(FOne, score)

\* A latency above the ceiling that is no multiple of it has been scored below 1.0.
C21_Witness ==
    /\ LatencyEvaluated
    /\ call.latency_ms > max_latency_ms
    /\ call.latency_ms < 2 * max_latency_ms
    /\ call.result[1] # FOne
    /\ FGeq(call.result[1], <<<<1>>, -1>>)

\* C22: every EvaluationResult has exactly five LayerResults, numbered 1 to 5 in
\* this order and carrying the fixed names; LayerResult L holds one aggregated
\* MetricResult for each metric registered in layer L, in the order of their
\* registration, so the tree holds count() MetricResults.
C22_ResultShape ==
    HasResult =>
        /\ Len(Result.layers) = 5
        /\ [k \in 1 .. 5 |-> Result.layers[k].layer_number] = <<1, 2, 3, 4, 5>>
        /\ [k \in 1 .. 5 |-> Result.layers[k].layer_name]
               = <<"Input/Output Validation", "Model Performance",
                   "System Integration", "Business Logic", "Fairness & Compliance">>
        /\ \A k \in 1 .. 5 :
               [j \in 1 .. Len(Result.layers[k].metrics) |->
                    Result.layers[k].metrics[j].metric_id] = _metrics[k]
        /\ Cardinality(MetricPlaces(Result)) = count(_metrics_by_name)

\* A result with two metrics in the second layer, the one registered first
\* (the DecisionAccuracy) first, and no metric in the first layer.
C22_Witness ==
    /\ HasResult
    /\ Len(Result.layers[2].metrics) = 2
    /\ Result.layers[2].metrics[1].metric_id = "m3"
    /\ Result.layers[2].metrics[1].metric_name # Result.layers[2].metrics[2].metric_name
    /\ Len(Result.layers[1].metrics) = 0

\* The metrics of the registry in the order evaluate() visits them: layer 1 to
\* layer 5, each bucket in registration order.
RegisteredInOrder ==
    _metrics[1] \o _metrics[2] \o _metrics[3] \o _metrics[4] \o _metrics[5]

\* C23: a successful evaluate() invokes the agent once for every pair of a
\* registered metric and a test case, count() * |test cases| times in all: layer
\* after layer from 1 to 5, within a layer metric after metric in registration
\* order, within a metric test case after test case in list order; and the
\* metric scores the output of the invocation made for it.
C23_InvocationOrder ==
    HasResult =>
        LET n == Len(CasesUsed)
        IN  /\ Len(call.calls) = count(_metrics_by_name) * n
            /\ \A k \in 1 .. Len(call.calls) :
                   LET q == ((k - 1) \div n) + 1
                       i == ((k - 1) % n) + 1
                       c == call.calls[k]
                   IN  /\ c.metric = RegisteredInOrder[q]
                       /\ c.metric \in Range(_metrics[c.layer])
                       /\ c.test_case = CasesUsed[i]
                       /\ c.agent = agent
                       /\ \E p \in MetricPlaces(Result) :
                              /\ p[1] = c.layer
                              /\ MetricAt(Result, p).metric_id = c.metric
                              /\ MetricAt(Result, p).individual_scores[i] =
                                     IF AgentCall(c.agent, c.test_case).raised THEN Zero
                                     ELSE metric_evaluate(
                                              c.metric, metric_severity[c.metric],
                                              AgentCall(c.agent, c.test_case).output,
                                              GroundTruth(c.test_case)).score

\* Two metrics in two layers have been evaluated on two test cases, with
\* different scores on the two cases: four invocations.
C23_Witness ==
    /\ HasResult
    /\ Len(call.calls) = 4
    /\ call.calls[1].layer = 1
    /\ call.calls[3].layer = 2
    /\ call.calls[3].test_case # call.calls[4].test_case
    /\ Result.layers[2].metrics[1].individual_scores[1]
           # Result.layers[2].metrics[1].individual_scores[2]

EvaluateStep ==
    pc = "idle" /\ call'.op = "evaluate"

\* C24: evaluate() only reads the evaluator: whether it returns a result or
\* fails, the registry, the metrics' attributes, the loaded test cases, the
\* bound agent and agent_id are what they were before the call.
C24_EvaluateReadOnly ==
    [][EvaluateStep =>
           /\ RegistryUnchanged
           /\ UNCHANGED <<metric_layer, metric_severity, test_cases, agent, agent_id>>]_vars

\* evaluate() has returned a result for test cases passed as argument that are
\* not the loaded ones.
C24_Witness ==
    /\ HasResult
    /\ call.test_cases # None
    /\ call.test_cases # Some(test_cases)
    /\ test_cases # <<>>

\* evaluate() has failed although test cases were passed as argument.
EvaluateFailed ==
    /\ EvaluateReturned
    /\ call.err # ""
    /\ call.test_cases # None
    /\ call.test_cases # Some(test_cases)

(***************************************************************************)
(* Two threads on one evaluator (core/evaluator.py, compare and evaluate). *)
(* Neither method takes a lock, so a thread switch can fall between any    *)
(* two reads or writes of self.agent and self.agent_id.  Here pc and call  *)
(* are functions of the thread: pc[t] is the statement thread t is at,     *)
(* call[t] its call and local variables.  The registry and the loaded test *)
(* cases are only read, so the entry of evaluate() is not a step of its    *)
(* own.  bound_agent, bound_id and overlapped are history fields: the      *)
(* agent and agent_id the call itself bound (compare) or found at its      *)
(* entry (evaluate), and whether the other thread's call was under way     *)
(* at some moment of this call.                                            *)
(***************************************************************************)
Threads == {1, 2}

Other(t) == 3 - t

\* The calls a thread makes: compare() of one or two agents, or evaluate().
ThreadCalls ==
    {[op |-> "compare", agents |-> <<"a1">>],
     [op |-> "compare", agents |-> <<"a2", "a1">>],
     [op |-> "evaluate", agents |-> <<>>]}

NoThreadCall ==
    [op |-> "", agents |-> <<>>, original_agent |-> None, i |-> 0, k |-> 0,
     log |-> <<>>, results |-> <<>>, bound_agent |-> None, bound_id |-> None,
     overlapped |-> FALSE]

ConcurrentInit ==
    /\ metric_layer = [m \in MetricIds |-> DefaultLayer(m)]
    /\ metric_severity = [m \in MetricIds |-> CRITICAL]
    /\ \E r \in {register(EmptyRegistry._metrics, EmptyRegistry._metrics_by_name,
                          "m1", DefaultLayer("m1"))} :
           /\ _metrics = r.registry._metrics
           /\ _metrics_by_name = r.registry._metrics_by_name
    /\ test_cases = <<"t1", "t2">>
    /\ agent = "a0"
    /\ agent_id = "agent_0"
    /\ pc = [t \in Threads |-> "idle"]
    /\ call = [t \in Threads |-> NoThreadCall]

Running(t) == pc[t] \notin {"idle", "done"}

\* The number of agent invocations of one evaluate().
InvocationCount == count(_metrics_by_name) * Len(test_cases)

\* Mutant: compare() leaves the last agent of the list bound.
restored_agent_last(original_agent, current) ==
    current

\* self.agent = original_agent at the end of compare().
restored_agent(original_agent, current) ==
    original_agent[1]

\* The EvaluationResult of an evaluate() whose agent invocations are in log:
\* the agent_id read when the result is built and the aggregated MetricResults.
thread_result(log, aid, bound_agent, bound_id) ==
    LET n == Len(test_cases)
    IN  [agent_id |-> aid,
         calls |-> log,
         metrics |-> [q \in 1 .. Len(RegisteredInOrder) |->
                         LET m == RegisteredInOrder[q]
                         IN  aggregated_result(m, metric_layer[m], metric_severity[m],
                                 [j \in 1 .. n |->
                                     test_result(m, metric_severity[m],
                                                 log[(q - 1) * n + j].agent,
                                                 test_cases[j])])],
         bound_agent |-> bound_agent,
         bound_id |-> bound_id]

\* Thread t enters compare(agents): original_agent = self.agent.
CompareBegin(t, agents) ==
    /\ pc[t] = "idle"
    /\ call' = [call EXCEPT
                   ![t] = [NoThreadCall EXCEPT !.op = "compare", !.agents = agents,
                                               !.original_agent = Some(agent),
                                               !.i = 1,
                                               !.overlapped = Running(Other(t))],
                   ![Other(t)].overlapped = @ \/ Running(Other(t))]
    /\ pc' = [pc EXCEPT ![t] = "bind_agent"]
    /\ UNCHANGED <<metric_layer, metric_severity, _metrics, _metrics_by_name,
                   test_cases, agent, agent_id>>

\* self.agent = agent
BindAgent(t) ==
    /\ pc[t] = "bind_agent"
    /\ agent' = rebound_agent(call[t].agents, call[t].i)
    /\ call' = [call EXCEPT ![t].bound_agent = Some(agent')]
    /\ pc' = [pc EXCEPT ![t] = "bind_id"]
    /\ UNCHANGED <<metric_layer, metric_severity, _metrics, _metrics_by_name,
                   test_cases, agent_id>>

\* self.agent_id = f"agent_{i+1}", followed by the entry of evaluate().
BindId(t) ==
    /\ pc[t] = "bind_id"
    /\ agent_id' = compare_agent_id(call[t].i)
    /\ call' = [call EXCEPT ![t].bound_id = Some(agent_id'), ![t].k = 1,
                            ![t].log = <<>>]
    /\ pc' = [pc EXCEPT ![t] = "invoke"]
    /\ UNCHANGED <<metric_layer, metric_severity, _metrics, _metrics_by_name,
                   test_cases, agent>>

\* Thread t enters evaluate() directly.
EvaluateBegin(t) ==
    /\ pc[t] = "idle"
    /\ call' = [call EXCEPT
                   ![t] = [NoThreadCall EXCEPT !.op = "evaluate", !.k = 1,
                                               !.bound_agent = Some(agent),
                                               !.bound_id = Some(agent_id),
                                               !.overlapped = Running(Other(t))],
                   ![Other(t)].overlapped = @ \/ Running(Other(t))]
    /\ pc' = [pc EXCEPT ![t] = "invoke"]
    /\ UNCHANGED <<metric_layer, metric_severity, _metrics, _metrics_by_name,
                   test_cases, agent, agent_id>>

\* output = self.agent(test_case.input): the k-th invocation of the evaluation,
\* with the agent self.agent holds at this moment.
Invoke(t) ==
    /\ pc[t] = "invoke"
    /\ LET n == Len(test_cases)
           q == ((call[t].k - 1) \div n) + 1
           j == ((call[t].k - 1) % n) + 1
           m == RegisteredInOrder[q]
       IN  call' = [call EXCEPT
                       ![t].log = Append(@, Invocation(metric_layer[m], m,
                                                       test_cases[j], agent)),
                       ![t].k = @ + 1]
    /\ pc' = [pc EXCEPT ![t] = IF call[t].k = InvocationCount
                               THEN "build" ELSE "invoke"]
    /\ UNCHANGED <<metric_layer, metric_severity, _metrics, _metrics_by_name,
                   test_cases, agent, agent_id>>

\* return EvaluationResult(..., agent_id=self.agent_id, ...), and in compare()
\* results.append(result) and the next iteration.
Build(t) ==
    /\ pc[t] = "build"
    /\ call' = [call EXCEPT
                   ![t].results = Append(@, thread_result(call[t].log, agent_id,
                                                          call[t].bound_agent,
                                                          call[t].bound_id)),
                   ![t].i = IF call[t].op = "compare" THEN @ + 1 ELSE @]
    /\ pc' = [pc EXCEPT ![t] = IF call[t].op = "evaluate" THEN "done"
                               ELSE IF call[t].i < Len(call[t].agents)
                               THEN "bind_agent" ELSE "restore"]
    /\ UNCHANGED <<metric_layer, metric_severity, _metrics, _metrics_by_name,
                   test_cases, agent, agent_id>>

\* self.agent = original_agent; return results
Restore(t) ==
    /\ pc[t] = "restore"
    /\ agent' = restored_agent(call[t].original_agent, agent)
    /\ pc' = [pc EXCEPT ![t] = "done"]
    /\ UNCHANGED <<metric_layer, metric_severity, _metrics, _metrics_by_name,
                   test_cases, agent_id, call>>

ConcurrentNext ==
    \/ \E t \in Threads, c \in {c \in ThreadCalls : c.op = "compare"} :
           CompareBegin(t, c.agents)
    \/ \E t \in Threads : EvaluateBegin(t)
    \/ \E t \in Threads : BindAgent(t)
    \/ \E t \in Threads : BindId(t)
    \/ \E t \in Threads : Invoke(t)
    \/ \E t \in Threads : Build(t)
    \/ \E t \in Threads : Restore(t)

ConcurrentSpec == ConcurrentInit /\ [][ConcurrentNext]_vars

\* A test case of thread t's call has been run with an agent the call did not
\* bind.
ForeignAgent(t) ==
    \E r \in Range(call[t].results) :
        \E c \in Range(r.calls) : <<c.agent>> # r.bound_agent

\* A result of thread t's call carries an agent_id the call did not bind.
ForeignAgentId(t) ==
    \E r \in Range(call[t].results) : <<r.agent_id>> # r.bound_id

BothReturned ==
    \A t \in Threads : pc[t] = "done"

\* Both calls have returned and the evaluator's agent is not the original one.
AgentNotRestored ==
    BothReturned /\ agent # "a0"

Overlapped ==
    \E t \in Threads : call[t].overlapped

\* C25: compare() is not safe under concurrency.  Calls that do not overlap
\* show none of the three faults (a test case run with the other call's agent,
\* a result with the other call's agent_id, an evaluator left with another
\* agent than the original); each fault is reached only by calls that
\* interleave on the evaluator, and the witness shows that it is reached.
C25_FaultsNeedInterleaving ==
    (\/ \E t \in Threads : ForeignAgent(t) \/ ForeignAgentId(t)
     \/ AgentNotRestored)
        => Overlapped

\* Two interleaved calls have returned: one has run a test case with the
\* other's agent, one has a result with the other's agent_id, and the evaluator
\* is left with an agent that is not the original one.
C25_Witness ==
    /\ BothReturned
    /\ Overlapped
    /\ \E t \in Threads : ForeignAgent(t)
    /\ \E t \in Threads : ForeignAgentId(t)
    /\ agent # "a0"

\* A compare() and an evaluate() have interleaved and the evaluate() has run a
\* test case with an agent of the compare().
EvaluateWithComparedAgent ==
    \E t \in Threads :
        /\ call[t].op = "evaluate"
        /\ call[Other(t)].op = "compare"
        /\ ForeignAgent(t)

\* C26: when an evaluate() inside compare() fails, the evaluator's agent is
\* still the one that was bound before compare() was called.
C26_AgentRestoredOnFailure ==
    [][(CompareStep /\ call'.err # "") => agent' = agent]_vars

\* What the code does when an evaluate() inside compare() fails: the error
\* leaves compare() in the first iteration, with the first agent of the list
\* bound.
FailedCompareKeepsFirstAgent ==
    [][(CompareStep /\ call'.err # "") => agent' = call'.agents[1]]_vars

\* C27: compare() leaves the evaluator's agent_id as it was before the call.
C27_AgentIdKept ==
    [][CompareStep => agent_id' = agent_id]_vars

\* What the code does: after compare() the agent_id is the one written for the
\* last agent that was evaluated; only an empty list of agents leaves it alone.
CompareLeavesLastAgentId ==
    [][CompareStep =>
           agent_id' = IF call'.agents = <<>> THEN agent_id
                       ELSE compare_agent_id(IF call'.err = ""
                                             THEN Len(call'.agents) ELSE 1)]_vars

\* C28: an add_metric(metric, layer) that fails changes nothing: the registry
\* and the metric's layer attribute are what they were before the call.
C28_FailedAddMetricChangesNothing ==
    [][(AddMetricStep /\ call'.err # "") =>
           RegistryUnchanged /\ metric_layer' = metric_layer]_vars

\* The registry half of C28: a failed add_metric leaves the registry alone.
FailedAddMetricKeepsRegistry ==
    [][(AddMetricStep /\ call'.err # "") => RegistryUnchanged]_vars

\* C29: every MetricResult inside LayerResult L has layer = L, and the layer
\* attribute of every registered metric is in 1..5.
C29_LayersAgree ==
    /\ HasResult =>
           \A p \in MetricPlaces(Result) : MetricAt(Result, p).layer = p[1]
    /\ \A n \in DOMAIN _metrics_by_name :
           metric_layer[_metrics_by_name[n]] \in Layers

\* C29 for the registries in which every metric sits in the bucket of its layer
\* attribute.
LayersAgreeInPlace ==
    (\A L \in Layers : \A m \in Range(_metrics[L]) : metric_layer[m] = L)
        => C29_LayersAgree

\* Every agent invocation of the evaluation has raised.
AgentAlwaysRaised ==
    \A c \in Range(call.calls) : AgentCall(c.agent, c.test_case).raised

NoCriticalMetric ==
    \A n \in DOMAIN _metrics_by_name :
        metric_severity[_metrics_by_name[n]] # CRITICAL

=============================================================================
